---- MODULE Spec2Model ----
(***************************************************************************)
(* A model of the template-mapping, design-merge and assembly core of     *)
(* presto:                                                                 *)
(*   template_config.py              TemplateConfig (path resolution and  *)
(*                                   validation of a content record)      *)
(*   template_analyzer.py            get_slide_dimensions                  *)
(*   design_properties_extractor.py  DesignPropertiesExtractor            *)
(*   enhanced_presentation_generator.py  EnhancedPresentationGenerator     *)
(*                                                                         *)
(* Python values are modelled as follows.                                  *)
(*   - A str is a sequence of symbols; the symbol "." is the dot, every    *)
(*     other symbol stands for a dot-free piece of text, so that           *)
(*     str.split('.') and f-string concatenation are computed, not         *)
(*     assumed.                                                            *)
(*   - A content record (the result of json.load) is a tree.  An object of *)
(*     the tree is named by its address, the sequence of dict keys that    *)
(*     leads to it from the root (<<>> is the root).  The record is a      *)
(*     function from the addresses of its objects to their Python type.    *)
(*     Two references are the same object iff their addresses are equal.   *)
(*   - A raised exception is a value of the result, so that "never raises" *)
(*     is a property of the result.                                        *)
(***************************************************************************)
EXTENDS Integers, Sequences, FiniteSets, TLC

VARIABLES
    data,               \* the caller's content record
    edits,              \* how many times the caller has written to the record
                        \* or, in the configuration runs, to a configuration
    slides_config,      \* TemplateConfig.slides_config, of DEFAULT_CONFIG
    custom_configs,     \* slides_config of each TemplateConfig made by
                        \* create_custom_config, in the order of the calls
    call,               \* the last call made on the mapping layer
    result,             \* what that call returned (or raised)
    template_data,      \* DesignPropertiesExtractor.template_data
    image_data,         \* DesignPropertiesExtractor.image_data
    design_properties,  \* DesignPropertiesExtractor.design_properties
    escaped,            \* the exception the extractor's last call let escape
    files,              \* the files of the working directory: name -> content
    design_config,      \* EnhancedPresentationGenerator.design_config
    prs,                \* the Presentation the generator works on
    log                 \* the diagnostics the generator has printed

mapping_vars == <<data, edits, slides_config, custom_configs, call, result>>
extractor_vars == <<template_data, image_data, design_properties, escaped>>
stage_vars == <<files, design_config, prs, log>>
vars == <<mapping_vars, extractor_vars, stage_vars>>

(***************************************************************************)
(* Bounds of the model.                                                    *)
(***************************************************************************)
MaxEdits == 3           \* writes of the caller to the content record
MaxPathLen == 5         \* symbols of a json_path, in the resolver's runs
MaxContentEdits == 2    \* writes of the caller to the sample content record
MaxSlides == 4          \* entries of slides_config
MaxPalette == 2         \* entries of color_palette.most_common_colors
MaxPlaceholders == 4    \* placeholders of one layout
MaxFonts == 2           \* typefaces listed under one font role
MaxConfigEdits == 3     \* writes of the callers to the configurations
MaxInstances == 2       \* TemplateConfig instances besides DEFAULT_CONFIG

(***************************************************************************)
(* Python values.                                                          *)
(***************************************************************************)
DOT == "."

PyTypes == {"dict", "list", "str", "int", "NoneType"}

\* The value None, and a reference to the object at address a of the record.
None == [tag |-> "None", addr |-> <<>>]
Ref(a) == [tag |-> "ref", addr |-> a]

\* What an expression evaluates to when the object at address a is used as a
\* value: json null is the singleton None, anything else is the object itself.
ValueAt(d, a) == IF d[a] = "NoneType" THEN None ELSE Ref(a)

\* The empty dict {}.  A dict with str keys known in advance is a function on
\* the keys it has; "k in d" is k \in DOMAIN d.
EmptyDict == [k \in {} |-> None]

\* DesignPropertiesExtractor.__init__: nothing loaded, six empty sections.
ExtractorNew ==
    /\ template_data = EmptyDict
    /\ image_data = EmptyDict
    /\ design_properties =
           [slide_dimensions |-> EmptyDict, color_scheme |-> EmptyDict,
            typography |-> EmptyDict, layout_templates |-> EmptyDict,
            design_elements |-> EmptyDict, brand_guidelines |-> EmptyDict]
    /\ escaped = "none"

\* No file in the working directory, no generator at work.
StageIdle ==
    /\ files = EmptyDict
    /\ design_config = EmptyDict
    /\ prs = [layouts |-> <<>>, slides |-> <<>>, saved |-> FALSE]
    /\ log = <<>>

NoCall == [op |-> "none"]
NoResult == [raised |-> "none", value |-> None, errors |-> <<>>]

(***************************************************************************)
(* str.split('.')                                                          *)
(***************************************************************************)
HasDot(s) == \E i \in 1..Len(s) : s[i] = DOT

FirstDot(s) == CHOOSE i \in 1..Len(s) : s[i] = DOT /\ \A j \in 1..(i - 1) : s[j] # DOT

RECURSIVE Split(_)
Split(s) ==
    IF ~HasDot(s) THEN <<s>>
    ELSE <<SubSeq(s, 1, FirstDot(s) - 1)>> \o Split(SubSeq(s, FirstDot(s) + 1, Len(s)))

(***************************************************************************)
(* value[key] for a str key: the object reached, or the exception raised.  *)
(*   dict            the entry, KeyError when the key is missing           *)
(*   list, str       TypeError (indices must be integers)                  *)
(*   int, NoneType   TypeError (not subscriptable)                         *)
(***************************************************************************)
GetItem(d, a, key) ==
    IF d[a] = "dict"
    THEN IF Append(a, key) \in DOMAIN d
         THEN [raised |-> "none", addr |-> Append(a, key)]
         ELSE [raised |-> "KeyError", addr |-> a]
    ELSE [raised |-> "TypeError", addr |-> a]

\* The loop "for key in keys: value = value[key]" from position i on, value
\* being the object at address a.
RECURSIVE WalkKeys_StopsEarly(_, _, _, _)
WalkKeys_StopsEarly(d, a, keys, i) ==
    IF i >= Len(keys) THEN [raised |-> "none", addr |-> a]
    ELSE LET step == GetItem(d, a, keys[i])
         IN  IF step.raised # "none" THEN step
             ELSE WalkKeys_StopsEarly(d, step.addr, keys, i + 1)

RECURSIVE WalkKeys(_, _, _, _)
WalkKeys(d, a, keys, i) ==
    IF i > Len(keys) THEN [raised |-> "none", addr |-> a]
    ELSE LET step == GetItem(d, a, keys[i])
         IN  IF step.raised # "none" THEN step
             ELSE WalkKeys(d, step.addr, keys, i + 1)

\* The exceptions the except clause of get_json_value_by_path catches.
CaughtByGet_OnlyKeyError == {"KeyError"}

CaughtByGet == {"KeyError", "TypeError"}

\* TemplateConfig.get_json_value_by_path(data, json_path).
get_json_value_by_path(d, json_path) ==
    LET walk == WalkKeys(d, <<>>, Split(json_path), 1)
    IN  IF walk.raised = "none"
        THEN [raised |-> "none", value |-> ValueAt(d, walk.addr)]
        ELSE IF walk.raised \in CaughtByGet
             THEN [raised |-> "none", value |-> None]
             ELSE [raised |-> walk.raised, value |-> None]

(***************************************************************************)
(* The caller owns the content record and writes to it.                    *)
(***************************************************************************)
IsPrefix(p, a) == Len(p) <= Len(a) /\ SubSeq(a, 1, Len(p)) = p

\* The record after the object at address a is replaced by a new, empty
\* object of type t (a is the root, or an entry of an existing dict).
WithItem(d, a, t) ==
    LET kept == {b \in DOMAIN d : ~IsPrefix(a, b)} \cup {a}
    IN  [b \in kept |-> IF b = a THEN t ELSE d[b]]

\* The record after "del parent[key]", a being the address of that entry.
WithoutItem(d, a) ==
    LET kept == {b \in DOMAIN d : ~IsPrefix(a, b)}
    IN  [b \in kept |-> d[b]]

\* record[...][key] = <a new object of type t>
SetItem(parent, key, t) ==
    /\ parent \in DOMAIN data
    /\ data[parent] = "dict"
    /\ data' = WithItem(data, Append(parent, key), t)
    /\ edits' = edits + 1
    /\ call' = NoCall
    /\ result' = NoResult
    /\ UNCHANGED <<slides_config, custom_configs, extractor_vars, stage_vars>>

\* del record[...][key]
DelItem(a) ==
    /\ a \in DOMAIN data
    /\ a # <<>>
    /\ data' = WithoutItem(data, a)
    /\ edits' = edits + 1
    /\ call' = NoCall
    /\ result' = NoResult
    /\ UNCHANGED <<slides_config, custom_configs, extractor_vars, stage_vars>>

(***************************************************************************)
(* The placeholder mapping configuration.  ContentType members are named   *)
(* by their values.                                                        *)
(***************************************************************************)
ContentType == {"text", "bullet_list", "table", "image", "title", "subtitle"}

PlaceholderMapping(placeholder_index, content_type, json_path) ==
    [placeholder_index |-> placeholder_index,
     content_type |-> content_type,
     json_path |-> json_path,
     jinja_enabled |-> TRUE]

SlideConfig(slide_key, layout_index, placeholders, slide_title_path) ==
    [slide_key |-> slide_key,
     layout_index |-> layout_index,
     placeholders |-> placeholders,
     slide_title_path |-> slide_title_path]

\* The text "presentation_data.<slide>.<field>".
FieldPath(slide, field) == <<"presentation_data", DOT, slide, DOT, field>>

\* The default configuration with layouts and placeholders counted from 1.
DefaultConfig_OneBased ==
    << SlideConfig(<<"title_slide">>, 1,
          << PlaceholderMapping(1, "title", FieldPath("title_slide", "title")),
             PlaceholderMapping(2, "subtitle", FieldPath("title_slide", "subtitle")) >>,
          FieldPath("title_slide", "title")),
       SlideConfig(<<"benefits_slide">>, 2,
          << PlaceholderMapping(1, "title", FieldPath("benefits_slide", "slide_title")),
             PlaceholderMapping(2, "bullet_list", FieldPath("benefits_slide", "text_body")),
             PlaceholderMapping(3, "image",
                                FieldPath("benefits_slide", "image_description")) >>,
          FieldPath("benefits_slide", "slide_title")),
       SlideConfig(<<"impact_slide">>, 2,
          << PlaceholderMapping(1, "title", FieldPath("impact_slide", "slide_title")),
             PlaceholderMapping(2, "table", FieldPath("impact_slide", "table_data")) >>,
          FieldPath("impact_slide", "slide_title")) >>
\* TemplateConfig._create_default_config().
DefaultConfig ==
    << SlideConfig(<<"title_slide">>, 0,
          << PlaceholderMapping(0, "title", FieldPath("title_slide", "title")),
             PlaceholderMapping(1, "subtitle", FieldPath("title_slide", "subtitle")) >>,
          FieldPath("title_slide", "title")),
       SlideConfig(<<"benefits_slide">>, 1,
          << PlaceholderMapping(0, "title", FieldPath("benefits_slide", "slide_title")),
             PlaceholderMapping(1, "bullet_list", FieldPath("benefits_slide", "text_body")),
             PlaceholderMapping(2, "image",
                                FieldPath("benefits_slide", "image_description")) >>,
          FieldPath("benefits_slide", "slide_title")),
       SlideConfig(<<"impact_slide">>, 1,
          << PlaceholderMapping(0, "title", FieldPath("impact_slide", "slide_title")),
             PlaceholderMapping(1, "table", FieldPath("impact_slide", "table_data")) >>,
          FieldPath("impact_slide", "slide_title")) >>

\* TemplateConfig.add_slide_config(config): the new list.
WithSlideConfig(configs, config) == Append(configs, config)

(***************************************************************************)
(* TemplateConfig.validate_data_structure(data).  An error message is a    *)
(* str: the literal text of the f-string followed by the interpolated key  *)
(* or path.                                                                *)
(***************************************************************************)
MissingSlideError(slide_key) == <<"Missing slide data for: ">> \o slide_key
MissingDataError(json_path) == <<"Missing data for path: ">> \o json_path
TableListError(json_path) == <<"Table data must be a list: ">> \o json_path
BulletListError(json_path) == <<"Bullet list data must be a list: ">> \o json_path

\* isinstance(value, list)
IsList_AcceptsDict(d, value) == value.tag = "ref" /\ d[value.addr] \in {"list", "dict"}

IsList(d, value) == value.tag = "ref" /\ d[value.addr] = "list"

\* The errors the body of the inner loop appends for one placeholder.
PlaceholderErrors(d, placeholder, value) ==
    IF value = None
    THEN <<MissingDataError(placeholder.json_path)>>
    ELSE IF placeholder.content_type = "table" /\ ~IsList(d, value)
    THEN <<TableListError(placeholder.json_path)>>
    ELSE IF placeholder.content_type = "bullet_list" /\ ~IsList(d, value)
    THEN <<BulletListError(placeholder.json_path)>>
    ELSE <<>>

\* The inner loop from placeholder j on; an exception of the resolver would
\* leave the loops and the method.
RECURSIVE CheckPlaceholders_StopsAtFirstError(_, _, _, _)
CheckPlaceholders_StopsAtFirstError(d, placeholders, j, errors) ==
    IF j > Len(placeholders) THEN [raised |-> "none", errors |-> errors]
    ELSE LET got == get_json_value_by_path(d, placeholders[j].json_path)
             found == PlaceholderErrors(d, placeholders[j], got.value)
         IN  IF got.raised # "none" THEN [raised |-> got.raised, errors |-> errors]
             ELSE IF found # <<>> THEN [raised |-> "none", errors |-> errors \o found]
             ELSE CheckPlaceholders_StopsAtFirstError(d, placeholders, j + 1, errors)

RECURSIVE CheckPlaceholders(_, _, _, _)
CheckPlaceholders(d, placeholders, j, errors) ==
    IF j > Len(placeholders) THEN [raised |-> "none", errors |-> errors]
    ELSE LET got == get_json_value_by_path(d, placeholders[j].json_path)
         IN  IF got.raised # "none" THEN [raised |-> got.raised, errors |-> errors]
             ELSE CheckPlaceholders(d, placeholders, j + 1,
                      errors \o PlaceholderErrors(d, placeholders[j], got.value))

\* Whether the placeholders of a slide are checked at all: the slide's own
\* data block resolved to something other than None.
SlideDataPresent(slide_data) == slide_data # None

\* The outer loop from slide i on.
RECURSIVE CheckSlides_ReturnsAtMissingSlide(_, _, _, _)
CheckSlides_ReturnsAtMissingSlide(d, configs, i, errors) ==
    IF i > Len(configs) THEN [raised |-> "none", errors |-> errors]
    ELSE LET got == get_json_value_by_path(d,
                        <<"presentation_data", DOT>> \o configs[i].slide_key)
         IN  IF got.raised # "none" THEN [raised |-> got.raised, errors |-> errors]
             ELSE IF ~SlideDataPresent(got.value)
             THEN [raised |-> "none",
                   errors |-> Append(errors, MissingSlideError(configs[i].slide_key))]
             ELSE LET inner == CheckPlaceholders(d, configs[i].placeholders, 1, errors)
                  IN  IF inner.raised # "none" THEN inner
                      ELSE CheckSlides_ReturnsAtMissingSlide(d, configs, i + 1,
                                                            inner.errors)

RECURSIVE CheckSlides(_, _, _, _)
CheckSlides(d, configs, i, errors) ==
    IF i > Len(configs) THEN [raised |-> "none", errors |-> errors]
    ELSE LET got == get_json_value_by_path(d,
                        <<"presentation_data", DOT>> \o configs[i].slide_key)
         IN  IF got.raised # "none" THEN [raised |-> got.raised, errors |-> errors]
             ELSE IF ~SlideDataPresent(got.value)
             THEN CheckSlides(d, configs, i + 1,
                      Append(errors, MissingSlideError(configs[i].slide_key)))
             ELSE LET inner == CheckPlaceholders(d, configs[i].placeholders, 1, errors)
                  IN  IF inner.raised # "none" THEN inner
                      ELSE CheckSlides(d, configs, i + 1, inner.errors)

validate_data_structure(configs, d) == CheckSlides(d, configs, 1, <<>>)

(***************************************************************************)
(* The resolver on its own: any record of at most MaxEdits writes over the *)
(* keys "" and "a", any path of at most MaxPathLen symbols.                *)
(***************************************************************************)
ResolveKeys == {<<>>, <<"a">>}
ResolveSymbols == {"a", DOT}

RECURSIVE StringsUpTo(_, _)
StringsUpTo(symbols, n) ==
    IF n = 0 THEN {<<>>}
    ELSE LET shorter == StringsUpTo(symbols, n - 1)
         IN  shorter \cup {Append(s, c) : s \in shorter, c \in symbols}

ResolvePaths == StringsUpTo(ResolveSymbols, MaxPathLen)

\* The record handed to the resolver is any JSON value: the root itself may
\* be replaced by a list, a scalar or null.
ResolveSetRoot ==
    \E t \in PyTypes :
        /\ edits < MaxEdits
        /\ data' = WithItem(data, <<>>, t)
        /\ edits' = edits + 1
        /\ call' = NoCall
        /\ result' = NoResult
        /\ UNCHANGED <<slides_config, custom_configs, extractor_vars, stage_vars>>

ResolveSetItem ==
    \E parent \in DOMAIN data, key \in ResolveKeys, t \in PyTypes :
        edits < MaxEdits /\ SetItem(parent, key, t)

ResolveDelItem == \E a \in DOMAIN data : edits < MaxEdits /\ DelItem(a)

\* A call leaves the record as it is, so a different call made right after
\* another reaches nothing a first call does not: after a call the caller
\* repeats it or writes to the record.
CallGet ==
    \E p \in ResolvePaths :
        /\ call = NoCall \/ call = [op |-> "get_json_value_by_path", json_path |-> p]
        /\ call' = [op |-> "get_json_value_by_path", json_path |-> p]
        /\ result' = LET r == get_json_value_by_path(data, p)
                      IN  [raised |-> r.raised, value |-> r.value, errors |-> <<>>]
        /\ UNCHANGED <<data, edits, slides_config, custom_configs, extractor_vars, stage_vars>>

InitResolve ==
    /\ data = [a \in {<<>>} |-> "dict"]
    /\ edits = 0
    /\ slides_config = DefaultConfig
    /\ custom_configs = <<>>
    /\ call = NoCall
    /\ result = NoResult
    /\ ExtractorNew
    /\ StageIdle

NextResolve == ResolveSetRoot \/ ResolveSetItem \/ ResolveDelItem \/ CallGet

SpecResolve == InitResolve /\ [][NextResolve]_vars

(***************************************************************************)
(* Claims on get_json_value_by_path.                                       *)
(***************************************************************************)
\* The segments of the last call's path, and the address its first i
\* segments name.
CallKeys == Split(call.json_path)
KeyPrefix(keys, i) == SubSeq(keys, 1, i)

\* Segment i of the path is looked up in an object of the record, and either
\* that object is no dict (a list, a string, a number, null) or it is a dict
\* without that key.
SegmentFails(d, keys, i) ==
    /\ KeyPrefix(keys, i - 1) \in DOMAIN d
    /\ \/ d[KeyPrefix(keys, i - 1)] # "dict"
       \/ KeyPrefix(keys, i) \notin DOMAIN d

\* Every segment of the path is a key present at its level of nested dicts.
AllSegmentsPresent(d, keys) ==
    \A i \in 1..Len(keys) :
        /\ KeyPrefix(keys, i - 1) \in DOMAIN d
        /\ d[KeyPrefix(keys, i - 1)] = "dict"
        /\ KeyPrefix(keys, i) \in DOMAIN d

\* C1: get_json_value_by_path never raises, for any record and any path; when
\* a segment of the path is a missing key or indexes a non-container, the
\* result is None.
C1_GetNeverRaises ==
    call.op = "get_json_value_by_path" =>
        /\ result.raised = "none"
        /\ (\E i \in 1..Len(CallKeys) : SegmentFails(data, CallKeys, i))
               => result.value = None

\* A call whose second segment indexes a list returned None.
C1_Witness ==
    /\ call.op = "get_json_value_by_path"
    /\ Len(CallKeys) >= 2
    /\ KeyPrefix(CallKeys, 1) \in DOMAIN data
    /\ data[KeyPrefix(CallKeys, 1)] = "list"
    /\ result.raised = "none"
    /\ result.value = None

\* C2: when every segment k1...kn of the path is a key present at its level,
\* the call returns the object record[k1]...[kn] itself (None for a null).
C2_GetReturnsExactValue ==
    (call.op = "get_json_value_by_path" /\ AllSegmentsPresent(data, CallKeys)) =>
        /\ result.raised = "none"
        /\ data[CallKeys] # "NoneType" => result.value = Ref(CallKeys)
        /\ data[CallKeys] = "NoneType" => result.value = None

\* A call with a two-segment path returned the nested, non-null object.
C2_Witness ==
    /\ call.op = "get_json_value_by_path"
    /\ Len(CallKeys) = 2
    /\ AllSegmentsPresent(data, CallKeys)
    /\ data[CallKeys] = "str"
    /\ result.value = Ref(CallKeys)

(***************************************************************************)
(* Validation runs: the caller starts from a complete content record for   *)
(* the default configuration (which also carries a section of its own,     *)
(* "shared"), writes to it, may configure one more slide, and validates.   *)
(***************************************************************************)
\* A slide configured by the user of the library: its key names no block of
\* the record, and its bullet list is read from the record's shared section.
ClosingSlide ==
    SlideConfig(<<"closing_slide">>, 1,
        << PlaceholderMapping(1, "bullet_list", <<"shared", DOT, "points">>) >>,
        <<"shared", DOT, "title">>)

CustomConfigs == {ClosingSlide}

SampleRecord ==
    LET S(x) == <<x>>
        pd == S("presentation_data")
    IN  (<<>> :> "dict")
        @@ (<<pd>> :> "dict")
        @@ (<<pd, S("title_slide")>> :> "dict")
        @@ (<<pd, S("title_slide"), S("title")>> :> "str")
        @@ (<<pd, S("title_slide"), S("subtitle")>> :> "str")
        @@ (<<pd, S("benefits_slide")>> :> "dict")
        @@ (<<pd, S("benefits_slide"), S("slide_title")>> :> "str")
        @@ (<<pd, S("benefits_slide"), S("text_body")>> :> "list")
        @@ (<<pd, S("benefits_slide"), S("image_description")>> :> "str")
        @@ (<<pd, S("impact_slide")>> :> "dict")
        @@ (<<pd, S("impact_slide"), S("slide_title")>> :> "str")
        @@ (<<pd, S("impact_slide"), S("table_data")>> :> "list")
        @@ (<<S("shared")>> :> "dict")
        @@ (<<S("shared"), S("points")>> :> "list")

\* The places of the record the configurations read: every prefix of every
\* split path.
PathsOf(config) ==
    {<<"presentation_data", DOT>> \o config.slide_key}
        \cup {config.placeholders[j].json_path : j \in 1..Len(config.placeholders)}

ContentSlots ==
    LET configs == {DefaultConfig[i] : i \in 1..Len(DefaultConfig)} \cup CustomConfigs
        paths == UNION {PathsOf(c) : c \in configs}
    IN  UNION {{SubSeq(Split(p), 1, n) : n \in 1..Len(Split(p))} : p \in paths}

ContentSetItem ==
    \E a \in ContentSlots, t \in PyTypes :
        /\ edits < MaxContentEdits
        /\ SetItem(SubSeq(a, 1, Len(a) - 1), a[Len(a)], t)

ContentDelItem ==
    \E a \in DOMAIN data : edits < MaxContentEdits /\ DelItem(a)

add_slide_config ==
    \E config \in CustomConfigs :
        /\ Len(slides_config) < MaxSlides
        /\ slides_config' = WithSlideConfig(slides_config, config)
        /\ call' = NoCall
        /\ result' = NoResult
        /\ UNCHANGED <<data, edits, custom_configs, extractor_vars, stage_vars>>

\* A validation that empties the record it has checked.
CallValidate_ConsumesRecord ==
    /\ call = NoCall \/ call = [op |-> "validate_data_structure"]
    /\ call' = [op |-> "validate_data_structure"]
    /\ result' = LET r == validate_data_structure(slides_config, data)
                  IN  [raised |-> r.raised, value |-> None, errors |-> r.errors]
    /\ data' = [a \in {<<>>} |-> "dict"]
    /\ UNCHANGED <<edits, slides_config, custom_configs, extractor_vars, stage_vars>>
CallValidate ==
    /\ call = NoCall \/ call = [op |-> "validate_data_structure"]
    /\ call' = [op |-> "validate_data_structure"]
    /\ result' = LET r == validate_data_structure(slides_config, data)
                  IN  [raised |-> r.raised, value |-> None, errors |-> r.errors]
    /\ UNCHANGED <<data, edits, slides_config, custom_configs, extractor_vars, stage_vars>>

\* The paths the caller resolves on its own: the title slide and its title.
LookupPaths ==
    {<<"presentation_data", DOT>> \o DefaultConfig[1].slide_key,
     DefaultConfig[1].slide_title_path}

\* get_json_value_by_path(data, p), called on the record being validated.
CallGetPath ==
    \E p \in LookupPaths :
        /\ call = NoCall \/ call = [op |-> "get_json_value_by_path", json_path |-> p]
        /\ call' = [op |-> "get_json_value_by_path", json_path |-> p]
        /\ result' = LET r == get_json_value_by_path(data, p)
                      IN  [raised |-> r.raised, value |-> r.value, errors |-> <<>>]
        /\ UNCHANGED <<data, edits, slides_config, custom_configs, extractor_vars,
                       stage_vars>>

InitValidate ==
    /\ data = SampleRecord
    /\ edits = 0
    /\ slides_config = DefaultConfig
    /\ custom_configs = <<>>
    /\ call = NoCall
    /\ result = NoResult
    /\ ExtractorNew
    /\ StageIdle

NextValidate ==
    \/ ContentSetItem
    \/ ContentDelItem
    \/ add_slide_config
    \/ CallValidate
    \/ CallGetPath

SpecValidate == InitValidate /\ [][NextValidate]_vars

(***************************************************************************)
(* Claims on validate_data_structure.  They read the state right after a   *)
(* call: the record and the configuration are those the call saw.          *)
(***************************************************************************)
Validated == call.op = "validate_data_structure" /\ result.raised = "none"

Reported(e) == \E n \in 1..Len(result.errors) : result.errors[n] = e

\* The text k occurs in the text e.
Mentions(e, k) == \E n \in 0..(Len(e) - Len(k)) : SubSeq(e, n + 1, n + Len(k)) = k

Resolved(json_path) == get_json_value_by_path(data, json_path).value

SlideBlock(i) == Resolved(<<"presentation_data", DOT>> \o slides_config[i].slide_key)

Slides == 1..Len(slides_config)
Placeholders(i) == 1..Len(slides_config[i].placeholders)
PlaceholderAt(i, j) == slides_config[i].placeholders[j]

ListTypes == {"bullet_list", "table"}

\* An error of one of the three kinds a placeholder produces, about path p.
ErrorsAbout(p) == {MissingDataError(p), TableListError(p), BulletListError(p)}

\* C3 as stated: every placeholder of every configured slide whose path
\* resolves to nothing has an error for its path in the returned list.
C3_AsStated ==
    Validated =>
        \A i \in Slides : \A j \in Placeholders(i) :
            Resolved(PlaceholderAt(i, j).json_path) = None
                => \E n \in 1..Len(result.errors) :
                       Mentions(result.errors[n], PlaceholderAt(i, j).json_path)

\* C3, amended: validation collects all errors.  Every configured slide whose
\* data block is absent has its missing-slide error in the list, and every
\* placeholder of every configured slide whose data block is present and
\* whose path resolves to nothing has its missing-data error in the list.
C3_CollectsAllErrors ==
    Validated =>
        \A i \in Slides :
            /\ SlideBlock(i) = None
                   => Reported(MissingSlideError(slides_config[i].slide_key))
            /\ SlideBlock(i) # None
                   => \A j \in Placeholders(i) :
                          Resolved(PlaceholderAt(i, j).json_path) = None
                              => Reported(MissingDataError(PlaceholderAt(i, j).json_path))

\* One slide with its block present lacks two of its values, another slide
\* lacks its block, and all three errors are in the list.
C3_Witness ==
    /\ Validated
    /\ \E i \in Slides :
           /\ SlideBlock(i) # None
           /\ \E j, k \in Placeholders(i) :
                  /\ j # k
                  /\ Resolved(PlaceholderAt(i, j).json_path) = None
                  /\ Resolved(PlaceholderAt(i, k).json_path) = None
                  /\ Reported(MissingDataError(PlaceholderAt(i, j).json_path))
                  /\ Reported(MissingDataError(PlaceholderAt(i, k).json_path))
    /\ \E i \in Slides :
           /\ SlideBlock(i) = None
           /\ Reported(MissingSlideError(slides_config[i].slide_key))

\* C4: every configured slide key whose block presentation_data.<key> is
\* absent has an error mentioning the key, and the errors of every other
\* configured slide (those a validation of that slide alone returns) are
\* still in the list.
C4_MissingSlideReported ==
    Validated =>
        \A i \in Slides :
            SlideBlock(i) = None =>
                /\ \E n \in 1..Len(result.errors) :
                       Mentions(result.errors[n], slides_config[i].slide_key)
                /\ \A k \in Slides \ {i} :
                       LET alone == validate_data_structure(<<slides_config[k]>>, data)
                       IN  \A n \in 1..Len(alone.errors) : Reported(alone.errors[n])

\* benefits_slide is absent from the record, and the error of a later slide
\* (a table that is no list) is reported as well.
C4_Witness ==
    /\ Validated
    /\ \E i \in Slides :
           /\ slides_config[i].slide_key = <<"benefits_slide">>
           /\ SlideBlock(i) = None
           /\ \E n \in 1..Len(result.errors) :
                  Mentions(result.errors[n], <<"benefits_slide">>)
    /\ Reported(TableListError(FieldPath("impact_slide", "table_data")))

\* The value at path p is present and is no list.
PresentNonList(p) == Resolved(p) # None /\ ~(data[Resolved(p).addr] = "list")

\* C5 as stated: every bullet-list or table placeholder whose path resolves
\* to a present value that is no list has a must-be-a-list error naming its
\* path in the list.
C5_AsStated ==
    Validated =>
        \A i \in Slides : \A j \in Placeholders(i) :
            (PlaceholderAt(i, j).content_type \in ListTypes
                /\ PresentNonList(PlaceholderAt(i, j).json_path))
                => \/ Reported(TableListError(PlaceholderAt(i, j).json_path))
                   \/ Reported(BulletListError(PlaceholderAt(i, j).json_path))

\* C5, amended: the same for the placeholders of the slides whose data block
\* is present, with the error of the placeholder's own type; and a path
\* with a present value that only placeholders of other content types read
\* has no error about it in the list.
C5_ListTypesChecked ==
    Validated =>
        /\ \A i \in Slides : \A j \in Placeholders(i) :
               (SlideBlock(i) # None /\ PresentNonList(PlaceholderAt(i, j).json_path)) =>
                   /\ PlaceholderAt(i, j).content_type = "table"
                          => Reported(TableListError(PlaceholderAt(i, j).json_path))
                   /\ PlaceholderAt(i, j).content_type = "bullet_list"
                          => Reported(BulletListError(PlaceholderAt(i, j).json_path))
        /\ \A i \in Slides : \A j \in Placeholders(i) :
               LET p == PlaceholderAt(i, j).json_path
               IN  (/\ Resolved(p) # None
                    /\ \A k \in Slides : \A m \in Placeholders(k) :
                           PlaceholderAt(k, m).json_path = p
                               => PlaceholderAt(k, m).content_type \notin ListTypes)
                       => \A e \in ErrorsAbout(p) : ~Reported(e)

\* The table of the impact slide is a mapping and its error is reported,
\* while the image description of the benefits slide is a list and has none.
C5_Witness ==
    /\ Validated
    /\ Resolved(FieldPath("impact_slide", "table_data")) # None
    /\ data[Resolved(FieldPath("impact_slide", "table_data")).addr] = "dict"
    /\ Reported(TableListError(FieldPath("impact_slide", "table_data")))
    /\ Resolved(FieldPath("benefits_slide", "image_description")) # None
    /\ data[Resolved(FieldPath("benefits_slide", "image_description")).addr] = "list"
    /\ \A e \in ErrorsAbout(FieldPath("benefits_slide", "image_description")) : ~Reported(e)

\* C24: the mapping layer only reads.  A get_json_value_by_path or a
\* validate_data_structure call leaves the content record and the slide
\* configurations as they are, and what it returned is what the call
\* computes from the record and the configurations of the state after it:
\* the same call made again on them returns the same value and errors.
C24_MappingLayerOnlyReads ==
    /\ [][(call' # call /\ call'.op \in {"get_json_value_by_path",
                                         "validate_data_structure"})
              => UNCHANGED <<data, slides_config, custom_configs>>]_vars
    /\ [](call.op = "get_json_value_by_path" =>
              \E again \in {get_json_value_by_path(data, call.json_path)} :
                  result.raised = again.raised /\ result.value = again.value)
    /\ [](call.op = "validate_data_structure" =>
              \E again \in {validate_data_structure(slides_config, data)} :
                  result.raised = again.raised /\ result.errors = again.errors)

\* A record with the title of the title slide removed was validated with a
\* fourth slide configured: the record still has its other entries, the
\* configuration its four slides, and the errors are those of a validation
\* made now.
C24_Witness ==
    /\ Validated
    /\ Len(slides_config) = 4
    /\ <<<<"presentation_data">>, <<"title_slide">>, <<"title">>>> \notin DOMAIN data
    /\ <<<<"presentation_data">>, <<"title_slide">>, <<"subtitle">>>> \in DOMAIN data
    /\ result.errors # <<>>
    /\ result.errors = validate_data_structure(slides_config, data).errors

(***************************************************************************)
(* Configuration runs: callers obtain TemplateConfig instances, the shared *)
(* DEFAULT_CONFIG through get_default_config and new ones through          *)
(* create_custom_config, and write slide configurations to them.  Instance *)
(* 0 is DEFAULT_CONFIG, made when the module is imported; instance n is    *)
(* the one the n-th create_custom_config call made.                        *)
(***************************************************************************)
Instance(n) == [tag |-> "TemplateConfig", addr |-> <<n>>]

\* self.slides_config of instance n.
SlidesOf(n) == IF n = 0 THEN slides_config ELSE custom_configs[n]

HasKey(configs, slide_key) ==
    \E i \in 1..Len(configs) : configs[i].slide_key = slide_key

FirstWithKey(configs, slide_key) ==
    CHOOSE i \in 1..Len(configs) :
        /\ configs[i].slide_key = slide_key
        /\ \A j \in 1..(i - 1) : configs[j].slide_key # slide_key

\* TemplateConfig.get_slide_config(slide_key).
get_slide_config(configs, slide_key) ==
    IF HasKey(configs, slide_key) THEN configs[FirstWithKey(configs, slide_key)]
    ELSE None

\* An update that adds the configuration without looking for the key.
update_slide_config_AlwaysAppends(configs, slide_key, config) ==
    WithSlideConfig(configs, config)

\* TemplateConfig.update_slide_config(slide_key, config): the new list.
update_slide_config(configs, slide_key, config) ==
    IF HasKey(configs, slide_key)
    THEN [configs EXCEPT ![FirstWithKey(configs, slide_key)] = config]
    ELSE WithSlideConfig(configs, config)

\* A title slide configured anew, on another layout and without subtitle.
TitleRevised ==
    SlideConfig(<<"title_slide">>, 2,
        << PlaceholderMapping(0, "title", FieldPath("title_slide", "title")) >>,
        FieldPath("title_slide", "title"))

\* The updates of the runs, slide_key and config: of a key the default
\* configuration has, of a key it has not, and one whose config carries
\* another key than the one it is filed under.
UpdateCalls ==
    { << <<"title_slide">>, TitleRevised >>,
      << <<"closing_slide">>, ClosingSlide >>,
      << <<"closing_slide">>, TitleRevised >> }

LookupKeys == {<<"title_slide">>, <<"closing_slide">>}

\* self.slides_config of instance n becomes configs.
WriteSlides(n, configs) ==
    /\ slides_config' = IF n = 0 THEN configs ELSE slides_config
    /\ custom_configs' =
           IF n = 0 THEN custom_configs ELSE [custom_configs EXCEPT ![n] = configs]

\* create_custom_config that hands out the default instance.
create_custom_config_ReturnsDefault ==
    /\ Len(custom_configs) < MaxInstances
    /\ call' = [op |-> "create_custom_config"]
    /\ result' = [raised |-> "none", value |-> Instance(0), errors |-> <<>>]
    /\ UNCHANGED <<data, edits, slides_config, custom_configs, extractor_vars, stage_vars>>

get_default_config ==
    /\ call' = [op |-> "get_default_config"]
    /\ result' = [raised |-> "none", value |-> Instance(0), errors |-> <<>>]
    /\ UNCHANGED <<data, edits, slides_config, custom_configs, extractor_vars, stage_vars>>

\* TemplateConfig(): __init__ stores the list _create_default_config builds.
create_custom_config ==
    /\ Len(custom_configs) < MaxInstances
    /\ custom_configs' = Append(custom_configs, DefaultConfig)
    /\ call' = [op |-> "create_custom_config"]
    /\ result' = [raised |-> "none", value |-> Instance(Len(custom_configs) + 1),
                  errors |-> <<>>]
    /\ UNCHANGED <<data, edits, slides_config, extractor_vars, stage_vars>>

CallUpdate ==
    \E n \in 0..Len(custom_configs), update \in UpdateCalls :
        /\ edits < MaxConfigEdits
        /\ WriteSlides(n, update_slide_config(SlidesOf(n), update[1], update[2]))
        /\ edits' = edits + 1
        /\ call' = [op |-> "update_slide_config", instance |-> n,
                    slide_key |-> update[1], config |-> update[2]]
        /\ result' = NoResult
        /\ UNCHANGED <<data, extractor_vars, stage_vars>>

CallAdd ==
    \E n \in 0..Len(custom_configs), config \in CustomConfigs :
        /\ edits < MaxConfigEdits
        /\ WriteSlides(n, WithSlideConfig(SlidesOf(n), config))
        /\ edits' = edits + 1
        /\ call' = [op |-> "add_slide_config", instance |-> n, config |-> config]
        /\ result' = NoResult
        /\ UNCHANGED <<data, extractor_vars, stage_vars>>

CallGetSlideConfig ==
    \E n \in 0..Len(custom_configs), slide_key \in LookupKeys :
        /\ call' = [op |-> "get_slide_config", instance |-> n, slide_key |-> slide_key]
        /\ result' = [raised |-> "none", value |-> get_slide_config(SlidesOf(n), slide_key),
                      errors |-> <<>>]
        /\ UNCHANGED <<data, edits, slides_config, custom_configs, extractor_vars, stage_vars>>

InitConfig ==
    /\ data = [a \in {<<>>} |-> "dict"]
    /\ edits = 0
    /\ slides_config = DefaultConfig
    /\ custom_configs = <<>>
    /\ call = NoCall
    /\ result = NoResult
    /\ ExtractorNew
    /\ StageIdle

NextConfig ==
    \/ get_default_config
    \/ create_custom_config
    \/ CallUpdate
    \/ CallAdd
    \/ CallGetSlideConfig

SpecConfig == InitConfig /\ [][NextConfig]_vars

(***************************************************************************)
(* Claims on the configurations.  A step that writes to a configuration is *)
(* a step that counts an edit; the call it made is in call'.               *)
(***************************************************************************)
Instances == 0..Len(custom_configs)

ContentTypesClosed(configs) ==
    \A i \in 1..Len(configs) :
        \A j \in 1..Len(configs[i].placeholders) :
            configs[i].placeholders[j].content_type \in ContentType

\* C23 as stated: every SlideConfig of the default configuration (what an
\* instance holds before anything is written to it) has a positive layout
\* index and only positive placeholder indices, and every content type is
\* one of the six.
C23_AsStated ==
    edits = 0 =>
        \A n \in Instances :
            /\ \A i \in 1..Len(SlidesOf(n)) :
                   /\ SlidesOf(n)[i].layout_index > 0
                   /\ \A j \in 1..Len(SlidesOf(n)[i].placeholders) :
                          SlidesOf(n)[i].placeholders[j].placeholder_index > 0
            /\ ContentTypesClosed(SlidesOf(n))

\* C23, amended: the indices of the default configuration are counted from
\* zero.  The layout index is 0 for the title slide and 1 for the two other
\* slides, the placeholder indices of a slide are 0, 1, ... in the order of
\* its placeholders, the title being placeholder 0; none is negative.  Every
\* content type is one of the six.
C23_IndicesFromZero ==
    edits = 0 =>
        \A n \in Instances :
            /\ Len(SlidesOf(n)) = 3
            /\ \A i \in 1..Len(SlidesOf(n)) :
                   /\ SlidesOf(n)[i].layout_index = IF i = 1 THEN 0 ELSE 1
                   /\ \A j \in 1..Len(SlidesOf(n)[i].placeholders) :
                          SlidesOf(n)[i].placeholders[j].placeholder_index = j - 1
                   /\ SlidesOf(n)[i].placeholders[1].content_type = "title"
            /\ ContentTypesClosed(SlidesOf(n))

\* Two instances made by create_custom_config besides the default one, and
\* nothing written yet.
C23_Witness ==
    /\ edits = 0
    /\ call.op = "create_custom_config"
    /\ Len(custom_configs) = 2
    /\ SlidesOf(2)[1].layout_index = 0
    /\ SlidesOf(0)[2].placeholders[3].placeholder_index = 2

Distinct(configs) ==
    \A i, j \in 1..Len(configs) : configs[i].slide_key = configs[j].slide_key => i = j

\* C28: an update_slide_config(k, c) with c.slide_key = k keeps the slide
\* keys of the instance pairwise distinct (they are in the default
\* configuration).  If k is configured the entry is replaced in place: the
\* list keeps its length and every other entry its position.  If not,
\* exactly one entry, c, is appended.  Either way get_slide_config(k) then
\* returns c.
C28_UpdateKeepsKeysDistinct ==
    /\ [](edits = 0 => \A n \in Instances : Distinct(SlidesOf(n)))
    /\ [][(edits' # edits /\ call'.op = "update_slide_config"
              /\ call'.config.slide_key = call'.slide_key) =>
          LET n == call'.instance
              k == call'.slide_key
              c == call'.config
              before == SlidesOf(n)
              after == IF n = 0 THEN slides_config' ELSE custom_configs'[n]
          IN  /\ Distinct(before) => Distinct(after)
              /\ IF HasKey(before, k)
                 THEN /\ Len(after) = Len(before)
                      /\ \A i \in 1..Len(before) :
                             before[i].slide_key # k => after[i] = before[i]
                      /\ \E i \in 1..Len(before) :
                             before[i].slide_key = k /\ after[i] = c
                 ELSE after = Append(before, c)
              /\ get_slide_config(after, k) = c]_vars

\* The default instance after the update of its title slide and the update
\* of a key it did not have: three entries in place, the first replaced,
\* and a fourth one appended.
C28_Witness ==
    /\ call.op = "update_slide_config"
    /\ call.instance = 0
    /\ slides_config = << TitleRevised, DefaultConfig[2], DefaultConfig[3], ClosingSlide >>
    /\ get_slide_config(slides_config, <<"title_slide">>) = TitleRevised
    /\ get_slide_config(slides_config, <<"closing_slide">>) = ClosingSlide

\* C29: get_default_config always returns the one instance DEFAULT_CONFIG
\* and leaves it as it is, so what was added or updated through it is there
\* for every later caller; create_custom_config returns a new instance each
\* time, holding a default configuration of its own; and a write to one
\* instance changes no other instance, default or custom.
C29_InstancesIndependent ==
    /\ [](call.op = "get_default_config" => result.value = Instance(0))
    /\ [][call'.op = "get_default_config" => UNCHANGED <<slides_config, custom_configs>>]_vars
    /\ [][(call' # call /\ call'.op = "create_custom_config") =>
              /\ result'.value \notin {Instance(n) : n \in Instances}
              /\ result'.value = Instance(Len(custom_configs'))
              /\ custom_configs' = Append(custom_configs, DefaultConfig)
              /\ slides_config' = slides_config]_vars
    /\ [][edits' # edits =>
              /\ call'.op \in {"add_slide_config", "update_slide_config"}
              /\ call'.instance \in Instances
              /\ Len(custom_configs') = Len(custom_configs)
              /\ \A n \in Instances \ {call'.instance} :
                     SlidesOf(n) = IF n = 0 THEN slides_config' ELSE custom_configs'[n]]_vars

\* A slide was added to the default instance and one updated in the second
\* custom instance; the first custom instance still holds the default
\* configuration, and get_default_config returns the instance with the
\* added slide.
C29_Witness ==
    /\ call.op = "get_default_config"
    /\ result.value = Instance(0)
    /\ Len(custom_configs) = 2
    /\ slides_config = Append(DefaultConfig, ClosingSlide)
    /\ custom_configs[1] = DefaultConfig
    /\ custom_configs[2] = << TitleRevised, DefaultConfig[2], DefaultConfig[3] >>

(***************************************************************************)
(* Numbers of the design merger.  A float is modelled by the rational it   *)
(* stands for, [num, den] in lowest terms with den > 0, and float          *)
(* arithmetic by exact arithmetic; products are reduced before they are    *)
(* formed, to stay within the integers of the model checker.  The ratios   *)
(* and thresholds of the runs are numbers on which the floats of the       *)
(* source compare as the exact values do.                                  *)
(***************************************************************************)
\* F(x) for the value of x.
Once(F(_), x) == CHOOSE v \in {F(p) : p \in {x}} : TRUE

RECURSIVE GCD(_, _)
GCD(a, b) == IF b = 0 THEN a ELSE GCD(b, a % b)

Abs(n) == IF n < 0 THEN -n ELSE n

Rat(n, d) ==
    LET g == GCD(Abs(n), Abs(d))
        sign == IF d < 0 THEN -1 ELSE 1
    IN  [num |-> sign * (n \div g), den |-> sign * (d \div g)]

RatOfInt(n) == [num |-> n, den |-> 1]

RatMul(x, y) ==
    LET g1 == GCD(Abs(x.num), y.den)
        g2 == GCD(Abs(y.num), x.den)
    IN  Rat((x.num \div g1) * (y.num \div g2), (x.den \div g2) * (y.den \div g1))

\* x / y, for y # 0.
RatDiv(x, y) ==
    RatMul(x, IF y.num < 0 THEN [num |-> -y.den, den |-> -y.num]
                           ELSE [num |-> y.den, den |-> y.num])

RatSub(x, y) ==
    LET g == GCD(x.den, y.den)
    IN  Rat(x.num * (y.den \div g) - y.num * (x.den \div g), (x.den \div g) * y.den)

RatAbs(x) == [num |-> Abs(x.num), den |-> x.den]

RatLess(x, y) == x.num * y.den < y.num * x.den

\* int(x): truncation towards zero.
Trunc(x) == IF x.num >= 0 THEN x.num \div x.den ELSE -((-x.num) \div x.den)

\* float(s) for a decimal numeral s, a str of digits with at most one ".".
DigitChars == <<"0", "1", "2", "3", "4", "5", "6", "7", "8", "9">>
DigitValue(c) == (CHOOSE i \in 1..10 : DigitChars[i] = c) - 1

RECURSIVE DigitsValue(_, _)
DigitsValue(s, acc) ==
    IF s = <<>> THEN acc ELSE DigitsValue(Tail(s), 10 * acc + DigitValue(Head(s)))

RECURSIVE Pow10(_)
Pow10(n) == IF n = 0 THEN 1 ELSE 10 * Pow10(n - 1)

ParseFloat(s) ==
    IF HasDot(s)
    THEN LET whole == SubSeq(s, 1, FirstDot(s) - 1)
             frac == SubSeq(s, FirstDot(s) + 1, Len(s))
         IN  Rat(DigitsValue(whole \o frac, 0), Pow10(Len(frac)))
    ELSE RatOfInt(DigitsValue(s, 0))

(***************************************************************************)
(* Where the rounding of a float shows (a product that is truncated, a     *)
(* quotient that is multiplied back), the float itself is computed: a      *)
(* positive float is [m, e], m its 53 mantissa bits, most significant      *)
(* first and m[1] = 1, and e the weight of the last bit, the value being   *)
(* m * 2^e.  A rational x stored for a float stands for Double(x).         *)
(***************************************************************************)
Zeros(n) == [i \in 1..n |-> 0]

BitLength(n) == IF n = 0 THEN 0 ELSE CHOOSE w \in 1..31 : n \div 2^(w - 1) = 1

\* The binary digits of a natural number, most significant first.
Bits(n) == [i \in 1..BitLength(n) |-> (n \div 2^(BitLength(n) - i)) % 2]

\* The natural number of at most 31 binary digits.
IntOfBits(bits) ==
    LET B(i) == IF i <= Len(bits) THEN bits[i] * 2^(Len(bits) - i) ELSE 0
    IN  B(1) + B(2) + B(3) + B(4) + B(5) + B(6) + B(7) + B(8) + B(9) + B(10) + B(11)
        + B(12) + B(13) + B(14) + B(15) + B(16) + B(17) + B(18) + B(19) + B(20) + B(21)
        + B(22) + B(23) + B(24) + B(25) + B(26) + B(27) + B(28) + B(29) + B(30) + B(31)

\* The w last binary digits of n.
LastBits(n, w) == [i \in 1..w |-> (n \div 2^(w - i)) % 2]

\* Round to nearest, ties to even: the float of q * 2^e, q a bit string
\* starting with 1, inexact telling that something non-zero lies below q.
RoundToDouble(q, e, inexact) ==
    IF Len(q) <= 53
    THEN [m |-> q \o Zeros(53 - Len(q)), e |-> e - (53 - Len(q))]
    ELSE LET kept == SubSeq(q, 1, 53)
             more == inexact \/ \E i \in 55..Len(q) : q[i] = 1
             up == q[54] = 1 /\ (more \/ kept[53] = 1)
             exp == e + (Len(q) - 53)
         IN  IF ~up THEN [m |-> kept, e |-> exp]
             ELSE IF \A i \in 1..53 : kept[i] = 1
             THEN [m |-> <<1>> \o Zeros(52), e |-> exp + 1]
             ELSE LET k == CHOOSE k \in 1..53 :
                               kept[k] = 0 /\ \A j \in (k + 1)..53 : kept[j] = 1
                  IN  [m |-> [i \in 1..53 |->
                                 IF i < k THEN kept[i] ELSE IF i = k THEN 1 ELSE 0],
                       e |-> exp]

\* Binary long division of r by d below the quotient bits q, eight bits
\* per step, until the division is exact or q has a bit beyond the mantissa.
RECURSIVE QuotientBits(_)
QuotientBits(s) ==
    IF s.r = 0 \/ Len(s.q) > 53 THEN s
    ELSE Once(QuotientBits,
              [q |-> IF s.q = <<>> THEN Bits((256 * s.r) \div s.d)
                     ELSE s.q \o LastBits((256 * s.r) \div s.d, 8),
               r |-> (256 * s.r) % s.d, d |-> s.d, e |-> s.e - 8])

\* The float nearest to the positive rational x: float(s) for the numeral
\* of x, and a / b for floats a and b of quotient x.
Double(x) ==
    LET s == QuotientBits([q |-> Bits(x.num \div x.den), r |-> x.num % x.den,
                           d |-> x.den, e |-> 0])
    IN  RoundToDouble(s.q, s.e, s.r # 0)

\* The bits of m * n, from the last bits of m upwards, eight bits per step.
RECURSIVE ProductBits(_)
ProductBits(s) ==
    IF s.i = 0 THEN Bits(s.carry) \o s.out
    ELSE LET w == IF s.i < 8 THEN s.i ELSE 8
             t == IntOfBits(SubSeq(s.m, s.i - w + 1, s.i)) * s.n + s.carry
         IN  Once(ProductBits,
                  [m |-> s.m, n |-> s.n, i |-> s.i - w,
                   carry |-> t \div 2^w, out |-> LastBits(t, w) \o s.out])

\* f * n for a float f and a positive integer n.
FloatTimes(f, n) ==
    RoundToDouble(ProductBits([m |-> f.m, n |-> n, i |-> 53, carry |-> 0, out |-> <<>>]),
                  f.e, FALSE)

\* int(f) for a positive float f below 2^31.
TruncDouble(f) ==
    IF f.e >= 0 THEN IntOfBits(f.m) * 2^f.e
    ELSE IF f.e <= -53 THEN 0
    ELSE IntOfBits(SubSeq(f.m, 1, 53 + f.e))

(***************************************************************************)
(* DesignPropertiesExtractor.extract_slide_dimensions.                     *)
(***************************************************************************)
EMU_PER_INCH == 914400
NativeUnitThreshold == 1000

\* "If values are very large, they're likely already in EMU": decided on
\* the width.
UsesNativeUnits_AtThreshold(width_val) ==
    ~RatLess(width_val, RatOfInt(NativeUnitThreshold))

UsesNativeUnits(width_val) == RatLess(RatOfInt(NativeUnitThreshold), width_val)

\* int(val * 914400) rounded up to the next integer.
EmuOfInches_RoundsUp(val) == TruncDouble(FloatTimes(Double(val), EMU_PER_INCH)) + 1

\* int(val * 914400) for the float val of a numeral.
EmuOfInches(val) == TruncDouble(FloatTimes(Double(val), EMU_PER_INCH))

\* The format label of a slide width_inches wide and height_inches high.
FormatLabel_SignedDifference(width_inches, height_inches) ==
    IF RatLess(RatSub(RatDiv(width_inches, height_inches), Rat(16, 9)), Rat(1, 10))
    THEN "Widescreen (16:9)" ELSE "Custom"

FormatLabel(width_inches, height_inches) ==
    IF RatLess(RatAbs(RatSub(RatDiv(width_inches, height_inches), Rat(16, 9))),
               Rat(1, 10))
    THEN "Widescreen (16:9)" ELSE "Custom"

\* The dict stored under design_properties['slide_dimensions'].
SlideDimensions(dims) ==
    LET width_val == ParseFloat(dims.width)
        height_val == ParseFloat(dims.height)
        native == UsesNativeUnits(width_val)
        width_inches == IF native THEN RatDiv(width_val, RatOfInt(EMU_PER_INCH))
                                  ELSE width_val
        height_inches == IF native THEN RatDiv(height_val, RatOfInt(EMU_PER_INCH))
                                   ELSE height_val
    IN  [width_inches |-> width_inches,
         width_emu |-> IF native THEN Trunc(width_val)
                                 ELSE EmuOfInches(width_val),
         height_inches |-> height_inches,
         height_emu |-> IF native THEN Trunc(height_val)
                                  ELSE EmuOfInches(height_val),
         aspect_ratio |-> RatDiv(width_inches, height_inches),
         format |-> FormatLabel(width_inches, height_inches)]

\* Without the key 'slide_dimensions' the method does nothing; a dimensions
\* dict without 'width' or 'height' (what the template analysis stores when
\* the template has no size element) makes dims['width'] raise KeyError.
extract_slide_dimensions ==
    /\ template_data # EmptyDict
    /\ IF "slide_dimensions" \notin DOMAIN template_data
       THEN UNCHANGED <<design_properties, escaped>>
       ELSE IF {"width", "height"} \subseteq DOMAIN template_data.slide_dimensions
       THEN /\ design_properties' =
                  [design_properties EXCEPT
                      !.slide_dimensions = SlideDimensions(template_data.slide_dimensions)]
            /\ escaped' = "none"
       ELSE /\ escaped' = "KeyError"
            /\ UNCHANGED design_properties
    /\ UNCHANGED <<mapping_vars, stage_vars, template_data, image_data>>

(***************************************************************************)
(* Dimension runs: a template analysis with positive sizes, as inches or   *)
(* as native units, is loaded and merged.                                  *)
(***************************************************************************)
Numeral(whole, frac) == IF frac = <<>> THEN whole ELSE whole \o <<DOT>> \o frac

DimensionNumerals ==
    { Numeral(<<"7">>, <<"5">>), Numeral(<<"9">>, <<>>), Numeral(<<"1", "0">>, <<>>),
      Numeral(<<"1", "3">>, <<"3", "3", "3">>), Numeral(<<"1", "6">>, <<>>),
      Numeral(<<"5", "6", "2">>, <<"5">>),
      Numeral(<<"1", "0", "0", "0">>, <<>>), Numeral(<<"1", "0", "0", "0">>, <<"5">>),
      Numeral(<<"1", "0", "0", "1">>, <<>>), Numeral(<<"1", "0", "0", "3">>, <<>>),
      Numeral(<<"1">>, <<"0", "0", "5">>),
      Numeral(<<"6", "5", "0", "0", "0", "0", "0">>, <<>>),
      Numeral(<<"6", "8", "5", "8", "0", "0", "0">>, <<>>),
      Numeral(<<"1", "2", "1", "9", "2", "0", "0", "0">>, <<>>) }

\* The pairs of the runs: those whose results are within the integers of the
\* model checker (a height of millions is not multiplied by 914400, a width
\* of millions is not divided by a height with three decimals).
DimensionPairs ==
    {pair \in DimensionNumerals \X DimensionNumerals :
        IF UsesNativeUnits(ParseFloat(pair[1]))
        THEN ParseFloat(pair[2]).den <= 2
        ELSE RatLess(ParseFloat(pair[2]), RatOfInt(2 * NativeUnitThreshold))}

DimensionAnalyses ==
    {[font_scheme |-> EmptyDict], [slide_dimensions |-> EmptyDict]}
        \cup {[slide_dimensions |-> [width |-> pair[1], height |-> pair[2]]] :
                  pair \in DimensionPairs}

\* load_analysis_files, the template analysis being one of DimensionAnalyses.
LoadDimensionAnalysis ==
    /\ template_data = EmptyDict
    /\ template_data' \in DimensionAnalyses
    /\ UNCHANGED <<mapping_vars, stage_vars, image_data, design_properties, escaped>>

MappingIdle ==
    /\ data = [a \in {<<>>} |-> "dict"]
    /\ edits = 0
    /\ slides_config = DefaultConfig
    /\ custom_configs = <<>>
    /\ call = NoCall
    /\ result = NoResult

InitDims == MappingIdle /\ ExtractorNew /\ StageIdle

NextDims == LoadDimensionAnalysis \/ extract_slide_dimensions

SpecDims == InitDims /\ [][NextDims]_vars

(***************************************************************************)
(* Claims on extract_slide_dimensions.                                     *)
(***************************************************************************)
HasDimensions ==
    /\ "slide_dimensions" \in DOMAIN template_data
    /\ {"width", "height"} \subseteq DOMAIN template_data.slide_dimensions

DimensionsExtracted == HasDimensions /\ design_properties.slide_dimensions # EmptyDict

InWidth == ParseFloat(template_data.slide_dimensions.width)
InHeight == ParseFloat(template_data.slide_dimensions.height)
OutDims == design_properties.slide_dimensions

\* x = value / 914400, stated without forming the quotient.
IsOverEmu(x, value) == RatMul(x, RatOfInt(EMU_PER_INCH)) = value

N1000 == Numeral(<<"1", "0", "0", "0">>, <<>>)
N1001 == Numeral(<<"1", "0", "0", "1">>, <<>>)
N10 == Numeral(<<"1", "0">>, <<>>)
N7_5 == Numeral(<<"7">>, <<"5">>)
N6858000 == Numeral(<<"6", "8", "5", "8", "0", "0", "0">>, <<>>)
N12192000 == Numeral(<<"1", "2", "1", "9", "2", "0", "0", "0">>, <<>>)

InputIs(w, h) ==
    /\ template_data.slide_dimensions.width = w
    /\ template_data.slide_dimensions.height = h

\* C6: a width above 1000 makes width and height native units (the EMU
\* values are the truncated inputs, the inches the inputs over 914400); any
\* other width, 1000 included, makes both inches (the EMU values are the
\* truncated inputs times 914400).  The height's own size plays no part:
\* 1000 x 1001 is inches, 12192000 x 7.5 is native units.
C6_UnitDecidedByWidth ==
    DimensionsExtracted =>
        /\ IF InWidth.num > 1000 * InWidth.den
           THEN /\ OutDims.width_emu = Trunc(InWidth)
                /\ OutDims.height_emu = Trunc(InHeight)
                /\ IsOverEmu(OutDims.width_inches, InWidth)
                /\ IsOverEmu(OutDims.height_inches, InHeight)
           ELSE /\ OutDims.width_inches = InWidth
                /\ OutDims.height_inches = InHeight
                /\ OutDims.width_emu = EmuOfInches(InWidth)
                /\ OutDims.height_emu = EmuOfInches(InHeight)
        /\ InputIs(N1000, N1001)
               => OutDims.width_emu = 914400000 /\ OutDims.height_emu = 915314400
        /\ InputIs(N12192000, N7_5)
               => OutDims.width_emu = 12192000 /\ OutDims.height_emu = 7

\* A width of exactly 1000 with a height above 1000 was merged as inches.
C6_Witness ==
    /\ DimensionsExtracted
    /\ InputIs(N1000, N1001)
    /\ OutDims.width_inches = RatOfInt(1000)
    /\ OutDims.height_emu = 915314400

\* C7: the format label is "Widescreen (16:9)" exactly when the ratio of the
\* incoming width to the incoming height is within 0.1 of 16/9, whichever
\* unit was decided: 12192000 x 6858000 is widescreen, 10 x 7.5 is custom.
C7_FormatLabel ==
    DimensionsExtracted =>
        /\ OutDims.format \in {"Widescreen (16:9)", "Custom"}
        /\ OutDims.format = "Widescreen (16:9)"
               <=> RatLess(RatAbs(RatSub(RatDiv(InWidth, InHeight), Rat(16, 9))),
                           Rat(1, 10))
        /\ InputIs(N12192000, N6858000) => OutDims.format = "Widescreen (16:9)"
        /\ InputIs(N10, N7_5) => OutDims.format = "Custom"

\* The native-unit example was labelled widescreen.
C7_Witness ==
    /\ DimensionsExtracted
    /\ InputIs(N12192000, N6858000)
    /\ OutDims.width_emu = 12192000
    /\ OutDims.format = "Widescreen (16:9)"

N1003 == Numeral(<<"1", "0", "0", "3">>, <<>>)
N1_005 == Numeral(<<"1">>, <<"0", "0", "5">>)

\* The float that follows the float f.
NextUp(f) == RoundToDouble(f.m \o <<1, 1>>, f.e - 2, FALSE)

\* Equal within floating rounding: the same float or neighbouring floats.
WithinRounding(f, g) == f = g \/ f = NextUp(g) \/ g = NextUp(f)

\* inches * 914400 as the source would compute it, for the stored inches.
BackToEmu(inches) == FloatTimes(Double(inches), EMU_PER_INCH)

\* emu is value * 914400 up to the truncation: off by less than one unit,
\* or by exactly one when the float of the numeral lies just below it.
TruncatedEmu(value, emu) ==
    LET diff == RatSub(RatMul(value, RatOfInt(EMU_PER_INCH)), RatOfInt(emu))
    IN  diff.num >= 0 /\ ~RatLess(RatOfInt(1), diff)

\* C22 as stated: a native size (integer, width above 1000) is stored as
\* width_emu, and width_inches * 914400 equals it; a size in inches is
\* width_emu / 914400 up to the truncation (read with a margin of one unit);
\* the height likewise, in the unit of the width.
C22_AsStated ==
    DimensionsExtracted =>
        IF UsesNativeUnits(InWidth)
        THEN /\ InWidth.den = 1
                    => /\ OutDims.width_emu = InWidth.num
                       /\ BackToEmu(OutDims.width_inches) = Double(InWidth)
             /\ InHeight.den = 1
                    => /\ OutDims.height_emu = InHeight.num
                       /\ BackToEmu(OutDims.height_inches) = Double(InHeight)
        ELSE /\ TruncatedEmu(InWidth, OutDims.width_emu)
             /\ TruncatedEmu(InHeight, OutDims.height_emu)

\* C22, amended: for a native size x (integer, width above 1000) the stored
\* width_emu is x and width_inches * 914400, computed in floats, is x within
\* floating rounding: x itself for 12192000, a neighbouring float for 1003.
\* For a size x in inches (width up to 1000) width_emu is the truncated
\* float product x * 914400, at most one unit below the exact product: 7.5
\* gives 6858000, 1.005 gives 918971.  The height is converted in the unit
\* decided by the width, and the same holds for it.
C22_RoundTripWithinRounding ==
    DimensionsExtracted =>
        /\ IF UsesNativeUnits(InWidth)
           THEN /\ InWidth.den = 1
                       => /\ OutDims.width_emu = InWidth.num
                          /\ WithinRounding(BackToEmu(OutDims.width_inches),
                                            Double(InWidth))
                /\ InHeight.den = 1
                       => /\ OutDims.height_emu = InHeight.num
                          /\ WithinRounding(BackToEmu(OutDims.height_inches),
                                            Double(InHeight))
           ELSE /\ TruncatedEmu(InWidth, OutDims.width_emu)
                /\ TruncatedEmu(InHeight, OutDims.height_emu)
        /\ InputIs(N12192000, N6858000)
               => /\ BackToEmu(OutDims.width_inches) = Double(InWidth)
                  /\ BackToEmu(OutDims.height_inches) = Double(InHeight)
        /\ InputIs(N7_5, N1_005)
               => OutDims.width_emu = 6858000 /\ OutDims.height_emu = 918971

\* A native width of 1003 was merged: it is stored as 1003 EMU, and its
\* inches multiplied back are the float next to 1003.
C22_Witness ==
    /\ DimensionsExtracted
    /\ InputIs(N1003, N1001)
    /\ OutDims.width_emu = 1003
    /\ BackToEmu(OutDims.width_inches) # Double(InWidth)
    /\ WithinRounding(BackToEmu(OutDims.width_inches), Double(InWidth))

(***************************************************************************)
(* Colors.  A hex color is a str of single characters, "#" first.  The     *)
(* HSL conversion is colorsys.rgb_to_hls in exact arithmetic; the colors   *)
(* of the runs are colors on which the floats of the source truncate to    *)
(* the same integers.                                                      *)
(***************************************************************************)
HexChars == <<"0", "1", "2", "3", "4", "5", "6", "7", "8", "9",
              "a", "b", "c", "d", "e", "f">>

\* int(pair, 16) for a pair of lower-case hex digits.
HexPair(s, i) ==
    LET value(c) == (CHOOSE n \in 1..16 : HexChars[n] = c) - 1
    IN  16 * value(s[i]) + value(s[i + 1])

\* hex_color.lstrip('#')
RECURSIVE LStripHash(_)
LStripHash(s) == IF s # <<>> /\ Head(s) = "#" THEN LStripHash(Tail(s)) ELSE s

hex_to_rgb(hex_color) ==
    LET digits == LStripHash(hex_color)
    IN  <<HexPair(digits, 1), HexPair(digits, 3), HexPair(digits, 5)>>

\* rgb_to_hsl(rgb): (int(h*360), int(s*100), int(l*100)) for the (h, l, s) of
\* colorsys.rgb_to_hls(r/255, g/255, b/255), over the common denominator 255:
\*   l = (maxc+minc)/2;  s = rangec/sumc if l <= 0.5 else rangec/(2-maxc-minc);
\*   h = ((bc-gc | 2+rc-bc | 4+gc-rc) / 6) % 1.0 with rc = (maxc-r)/rangec ...
rgb_to_hsl(rgb) ==
    LET r == rgb[1]
        g == rgb[2]
        b == rgb[3]
        Max2(x, y) == IF x < y THEN y ELSE x
        Min2(x, y) == IF y < x THEN y ELSE x
        maxc == Max2(r, Max2(g, b))                 \* in 255ths, as all below
        minc == Min2(r, Min2(g, b))
        sumc == maxc + minc
        rangec == maxc - minc
        \* l <= 0.5 is sumc <= 255
        sden == IF sumc <= 255 THEN sumc ELSE 2 * 255 - maxc - minc
        \* h*6*rangec before the modulo
        hnum == IF r = maxc THEN g - b
                ELSE IF g = maxc THEN 2 * rangec + b - r
                ELSE 4 * rangec + r - g
    IN  IF minc = maxc
        THEN <<0, 0, (100 * sumc) \div (2 * 255)>>
        ELSE <<(360 * (hnum % (6 * rangec))) \div (6 * rangec),
               (100 * rangec) \div sden,
               (100 * sumc) \div (2 * 255)>>

\* The if-chain of categorize_color.
Category_SecondaryRangeFirst(h, s, l) ==
    IF l > 90 THEN "light"
    ELSE IF l < 20 THEN "dark"
    ELSE IF s < 20 THEN "neutral"
    ELSE IF 140 <= h /\ h <= 200 THEN "secondary_green"
    ELSE IF 80 <= h /\ h <= 140 THEN "primary_green"
    ELSE "accent"

Category(h, s, l) ==
    IF l > 90 THEN "light"
    ELSE IF l < 20 THEN "dark"
    ELSE IF s < 20 THEN "neutral"
    ELSE IF 80 <= h /\ h <= 140 THEN "primary_green"
    ELSE IF 140 <= h /\ h <= 200 THEN "secondary_green"
    ELSE "accent"

categorize_color(hex_color) ==
    LET hsl == rgb_to_hsl(hex_to_rgb(hex_color))
    IN  [category |-> Category(hsl[1], hsl[2], hsl[3]),
         hue |-> hsl[1],
         saturation |-> hsl[2],
         lightness |-> hsl[3],
         is_green_family |-> 80 <= hsl[1] /\ hsl[1] <= 200]

\* One pass of the loop over the palette: the color with its analysis merged
\* in (color_analysis.update(color_info)).
ColorAnalysis(color_info) ==
    LET color_analysis == categorize_color(color_info[1])
    IN  [category |-> color_analysis.category,
         hue |-> color_analysis.hue,
         saturation |-> color_analysis.saturation,
         lightness |-> color_analysis.lightness,
         is_green_family |-> color_analysis.is_green_family,
         hex |-> color_info[1],
         frequency |-> color_info[2],
         rgb |-> hex_to_rgb(color_info[1])]

\* colors_by_category[category] after the loop: the analyses of the category
\* in palette order (each one appended in its turn).
RECURSIVE Bucket_NewestFirst(_, _)
Bucket_NewestFirst(analyses, category) ==
    IF analyses = <<>> THEN <<>>
    ELSE LET rest == Bucket_NewestFirst(Tail(analyses), category)
         IN  IF Head(analyses).category = category
             THEN Append(rest, Head(analyses)) ELSE rest

RECURSIVE Bucket(_, _)
Bucket(analyses, category) ==
    IF analyses = <<>> THEN <<>>
    ELSE LET rest == Bucket(Tail(analyses), category)
         IN  IF Head(analyses).category = category
             THEN <<Head(analyses)>> \o rest ELSE rest

\* colors_by_category.get(category, [{}])[0].get('hex', fallback)
FirstHexOr(analyses, category, fallback) ==
    IF Bucket(analyses, category) = <<>> THEN fallback
    ELSE Bucket(analyses, category)[1].hex

HexColor(c1, c2, c3, c4, c5, c6) == <<"#", c1, c2, c3, c4, c5, c6>>

\* The dict stored under design_properties['color_scheme'].
ColorScheme(palette) ==
    LET colors == [i \in 1..Len(palette.most_common_colors) |->
                       ColorAnalysis(palette.most_common_colors[i])]
        UpTo(list, n) == SubSeq(list, 1, IF Len(list) < n THEN Len(list) ELSE n)
    IN  [primary_colors |-> UpTo(Bucket(colors, "primary_green"), 3),
         secondary_colors |-> UpTo(Bucket(colors, "secondary_green"), 3),
         neutral_colors |-> UpTo(Bucket(colors, "neutral"), 3),
         light_colors |-> UpTo(Bucket(colors, "light"), 3),
         dark_colors |-> UpTo(Bucket(colors, "dark"), 3),
         accent_colors |-> UpTo(Bucket(colors, "accent"), 2),
         total_unique_colors |-> palette.total_unique_colors,
         color_consistency |-> palette.color_consistency,
         dominant_color_family |-> "green",
         brand_colors |->
             [primary |-> FirstHexOr(colors, "primary_green",
                                     HexColor("4", "5", "6", "4", "4", "6")),
              secondary |-> FirstHexOr(colors, "light",
                                       HexColor("e", "7", "f", "3", "e", "c")),
              accent |-> FirstHexOr(colors, "secondary_green",
                                    HexColor("6", "f", "8", "7", "7", "0"))]]

\* Without the key 'color_palette' the method does nothing.
extract_color_scheme ==
    /\ image_data # EmptyDict
    /\ IF "color_palette" \notin DOMAIN image_data
       THEN UNCHANGED design_properties
       ELSE design_properties' =
                [design_properties EXCEPT
                    !.color_scheme = ColorScheme(image_data.color_palette)]
    /\ UNCHANGED <<mapping_vars, stage_vars, template_data, image_data, escaped>>

(***************************************************************************)
(* Color runs: an image analysis with a palette of at most MaxPalette      *)
(* colors, most frequent first, is loaded and merged; colors are           *)
(* categorized one by one.                                                 *)
(***************************************************************************)
PaletteColors ==
    { HexColor("f", "f", "f", "f", "f", "f"), HexColor("e", "7", "f", "3", "e", "c"),
      HexColor("f", "1", "f", "8", "e", "9"), HexColor("1", "a", "2", "b", "1", "a"),
      HexColor("4", "5", "6", "4", "4", "6"), HexColor("4", "c", "a", "f", "5", "0"),
      HexColor("3", "3", "c", "c", "6", "6"), HexColor("0", "0", "9", "6", "8", "8"),
      HexColor("3", "3", "c", "c", "9", "9"), HexColor("f", "f", "5", "7", "2", "2"),
      HexColor("2", "1", "9", "6", "f", "3") }

ColorPalettes ==
    UNION {[1..n -> PaletteColors] : n \in 0..MaxPalette}

ImageAnalyses ==
    {[layout_patterns |-> EmptyDict]}
        \cup {[color_palette |->
                  [most_common_colors |->
                       [i \in 1..Len(colors) |-> <<colors[i], 10 * (Len(colors) - i + 1)>>],
                   total_unique_colors |-> Cardinality({colors[i] : i \in 1..Len(colors)}),
                   color_consistency |-> "high"]] :
              colors \in ColorPalettes}

\* load_analysis_files, the image analysis being one of ImageAnalyses.
LoadImageAnalysis ==
    /\ image_data = EmptyDict
    /\ image_data' \in ImageAnalyses
    /\ UNCHANGED <<mapping_vars, stage_vars, template_data, design_properties, escaped>>

\* categorize_color that remembers the colors it has seen in the extractor.
CallCategorize_RemembersColor ==
    \E hex_color \in PaletteColors :
        /\ call = NoCall \/ call = [op |-> "categorize_color", hex_color |-> hex_color]
        /\ call' = [op |-> "categorize_color", hex_color |-> hex_color]
        /\ result' = [raised |-> "none", value |-> categorize_color(hex_color),
                      errors |-> <<>>]
        /\ design_properties' =
               [design_properties EXCEPT !.design_elements = categorize_color(hex_color)]
        /\ UNCHANGED <<data, edits, slides_config, custom_configs, template_data, image_data, escaped,
                       stage_vars>>
CallCategorize ==
    \E hex_color \in PaletteColors :
        /\ call = NoCall \/ call = [op |-> "categorize_color", hex_color |-> hex_color]
        /\ call' = [op |-> "categorize_color", hex_color |-> hex_color]
        /\ result' = [raised |-> "none", value |-> categorize_color(hex_color),
                      errors |-> <<>>]
        /\ UNCHANGED <<data, edits, slides_config, custom_configs, extractor_vars, stage_vars>>

InitColor == MappingIdle /\ ExtractorNew /\ StageIdle

NextColor == LoadImageAnalysis \/ extract_color_scheme \/ CallCategorize

SpecColor == InitColor /\ [][NextColor]_vars

(***************************************************************************)
(* Claims about the colors.                                                *)
(***************************************************************************)
Categorized == call.op = "categorize_color" /\ result.raised = "none"

\* C8: categorize_color classifies by first match in the fixed order
\* lightness > 90 -> light; lightness < 20 -> dark; saturation < 20 ->
\* neutral; hue in 80..140 -> primary_green; hue in 140..200 ->
\* secondary_green; otherwise accent.  The lightness rules take precedence
\* over saturation and hue, and hue 140 resolves to primary_green.
C8_FirstMatchOrder ==
    Categorized =>
        LET c == result.value
            light == c.lightness > 90
            dark == c.lightness < 20
            neutral == c.saturation < 20
            primary == c.hue \in 80..140
            secondary == c.hue \in 140..200
        IN  /\ light => c.category = "light"
            /\ ~light /\ dark => c.category = "dark"
            /\ ~light /\ ~dark /\ neutral => c.category = "neutral"
            /\ ~light /\ ~dark /\ ~neutral /\ primary => c.category = "primary_green"
            /\ ~light /\ ~dark /\ ~neutral /\ ~primary /\ secondary
                   => c.category = "secondary_green"
            /\ ~light /\ ~dark /\ ~neutral /\ ~primary /\ ~secondary
                   => c.category = "accent"
            /\ c.hue = 140 /\ ~light /\ ~dark /\ ~neutral => c.category = "primary_green"

\* The color #33cc66, of hue 140, saturation 60 and lightness 50, has been
\* categorized as primary_green.
C8_Witness ==
    /\ Categorized
    /\ call.hex_color = HexColor("3", "3", "c", "c", "6", "6")
    /\ result.value.hue = 140
    /\ result.value.saturation = 60
    /\ result.value.lightness = 50
    /\ result.value.category = "primary_green"

SchemeExtracted ==
    /\ "color_palette" \in DOMAIN image_data
    /\ design_properties.color_scheme # EmptyDict

\* The palette positions whose color falls into the category.
PositionsOf(category) ==
    LET colors == image_data.color_palette.most_common_colors
    IN  {i \in 1..Len(colors) : categorize_color(colors[i][1]).category = category}

\* The hex of the first palette entry of the category, the literal if none.
FirstOfCategoryOr(category, literal) ==
    LET colors == image_data.color_palette.most_common_colors
        positions == PositionsOf(category)
    IN  IF positions = {} THEN literal
        ELSE colors[CHOOSE i \in positions : \A j \in positions : i <= j][1]

\* C9 as stated: each brand color is the first palette entry of its own
\* bucket (primary, secondary, accent), the fallback literal exactly when
\* that bucket is empty.
C9_AsStated ==
    SchemeExtracted =>
        LET brand == design_properties.color_scheme.brand_colors
        IN  /\ brand.primary =
                   FirstOfCategoryOr("primary_green", HexColor("4", "5", "6", "4", "4", "6"))
            /\ brand.secondary =
                   FirstOfCategoryOr("secondary_green", HexColor("e", "7", "f", "3", "e", "c"))
            /\ brand.accent =
                   FirstOfCategoryOr("accent", HexColor("6", "f", "8", "7", "7", "0"))

\* C9 (amended): each brand color is the first palette entry, in input
\* order, of one fixed bucket: primary of the primary_green bucket,
\* secondary of the light bucket, accent of the secondary_green bucket; it
\* is the fallback literal (#456446, #e7f3ec, #6f8770) exactly when that
\* bucket is empty, and the selection fails for no palette, the empty one
\* included.
C9_BrandColorsByBucket ==
    /\ escaped = "none"
    /\ SchemeExtracted =>
        LET brand == design_properties.color_scheme.brand_colors
        IN  /\ brand.primary =
                   FirstOfCategoryOr("primary_green", HexColor("4", "5", "6", "4", "4", "6"))
            /\ brand.secondary =
                   FirstOfCategoryOr("light", HexColor("e", "7", "f", "3", "e", "c"))
            /\ brand.accent =
                   FirstOfCategoryOr("secondary_green", HexColor("6", "f", "8", "7", "7", "0"))

\* A palette of two primary greens and nothing else: the primary brand color
\* is the first of the two, the other two are their literals.
C9_Witness ==
    /\ SchemeExtracted
    /\ Cardinality(PositionsOf("primary_green")) = 2
    /\ PositionsOf("light") = {}
    /\ PositionsOf("secondary_green") = {}
    /\ image_data.color_palette.most_common_colors[1][1] #
           image_data.color_palette.most_common_colors[2][1]
    /\ design_properties.color_scheme.brand_colors =
           [primary |-> image_data.color_palette.most_common_colors[1][1],
            secondary |-> HexColor("e", "7", "f", "3", "e", "c"),
            accent |-> HexColor("6", "f", "8", "7", "7", "0")]

PlaceholderTypes(placeholders) ==
    [t \in {placeholders[i].type : i \in 1..Len(placeholders)} |->
        Cardinality({i \in 1..Len(placeholders) : placeholders[i].type = t})]

determine_usage_pattern_MultiContentFirst(placeholder_types) ==
    IF "BODY" \in DOMAIN placeholder_types /\ placeholder_types["BODY"] > 1
    THEN "multi_content"
    ELSE IF "TITLE" \in DOMAIN placeholder_types /\ "SUBTITLE" \in DOMAIN placeholder_types
    THEN "title_slide"
    ELSE IF "TITLE" \in DOMAIN placeholder_types /\ "BODY" \in DOMAIN placeholder_types
    THEN "content_slide"
    ELSE IF "TITLE" \in DOMAIN placeholder_types /\ "PICTURE" \in DOMAIN placeholder_types
    THEN "image_slide"
    ELSE "custom"

determine_usage_pattern_ContentHasOneBody(placeholder_types) ==
    IF "TITLE" \in DOMAIN placeholder_types /\ "SUBTITLE" \in DOMAIN placeholder_types
    THEN "title_slide"
    ELSE IF "TITLE" \in DOMAIN placeholder_types /\ "BODY" \in DOMAIN placeholder_types
            /\ placeholder_types["BODY"] = 1
    THEN "content_slide"
    ELSE IF "TITLE" \in DOMAIN placeholder_types /\ "PICTURE" \in DOMAIN placeholder_types
    THEN "image_slide"
    ELSE IF (IF "BODY" \in DOMAIN placeholder_types
             THEN placeholder_types["BODY"] ELSE 0) > 1
    THEN "multi_content"
    ELSE "custom"

determine_usage_pattern(placeholder_types) ==
    IF "TITLE" \in DOMAIN placeholder_types /\ "SUBTITLE" \in DOMAIN placeholder_types
    THEN "title_slide"
    ELSE IF "TITLE" \in DOMAIN placeholder_types /\ "BODY" \in DOMAIN placeholder_types
    THEN "content_slide"
    ELSE IF "TITLE" \in DOMAIN placeholder_types /\ "PICTURE" \in DOMAIN placeholder_types
    THEN "image_slide"
    ELSE IF (IF "BODY" \in DOMAIN placeholder_types
             THEN placeholder_types["BODY"] ELSE 0) > 1
    THEN "multi_content"
    ELSE "custom"

\* The entry of layout_templates built from one layout.
LayoutTemplate(layout) ==
    LET placeholders == IF "placeholders" \in DOMAIN layout
                        THEN layout.placeholders ELSE <<>>
    IN  [name |-> layout.name,
         placeholder_count |-> Len(placeholders),
         placeholder_types |-> PlaceholderTypes(placeholders),
         placeholders |-> placeholders,
         usage_pattern |-> determine_usage_pattern(PlaceholderTypes(placeholders))]

\* layout_templates after the loop: a later layout of the same name replaces
\* the earlier one.
LayoutTemplates(layouts) ==
    [name \in {layouts[i].name : i \in 1..Len(layouts)} |->
        LayoutTemplate(layouts[CHOOSE i \in 1..Len(layouts) :
                                  /\ layouts[i].name = name
                                  /\ \A j \in 1..Len(layouts) :
                                         layouts[j].name = name => j <= i])]

\* Without the key 'layouts' the method does nothing.
extract_layout_templates ==
    /\ template_data # EmptyDict
    /\ IF "layouts" \notin DOMAIN template_data
       THEN UNCHANGED design_properties
       ELSE design_properties' =
                [design_properties EXCEPT
                    !.layout_templates = LayoutTemplates(template_data.layouts)]
    /\ UNCHANGED <<mapping_vars, stage_vars, template_data, image_data, escaped>>

(***************************************************************************)
(* Layout runs: the template analysis has one layout of at most            *)
(* MaxPlaceholders placeholders, alone or next to a layout without         *)
(* placeholders list.                                                      *)
(***************************************************************************)
PlaceholderTypeNames == {"TITLE", "SUBTITLE", "BODY", "PICTURE"}

LayoutNames == {"Title Slide", "Blank"}

BlankLayout == [name |-> "Blank"]

LayoutAnalyses ==
    LET lists == UNION {[1..n -> PlaceholderTypeNames] : n \in 0..MaxPlaceholders}
        layouts == {[name |-> name,
                     placeholders |-> [i \in 1..Len(types) |->
                                          [type |-> types[i], idx |-> i - 1]]] :
                    name \in LayoutNames, types \in lists}
    IN  {[slide_dimensions |-> EmptyDict]}
            \cup {[layouts |-> <<layout>>] : layout \in layouts}
            \cup {[layouts |-> <<layout, BlankLayout>>] : layout \in layouts}
            \cup {[layouts |-> <<BlankLayout, layout>>] : layout \in layouts}

\* load_analysis_files, the template analysis being one of LayoutAnalyses.
LoadLayoutAnalysis ==
    /\ template_data = EmptyDict
    /\ template_data' \in LayoutAnalyses
    /\ UNCHANGED <<mapping_vars, stage_vars, image_data, design_properties, escaped>>

InitLayout == MappingIdle /\ ExtractorNew /\ StageIdle

NextLayout == LoadLayoutAnalysis \/ extract_layout_templates

SpecLayout == InitLayout /\ [][NextLayout]_vars

(***************************************************************************)
(* Claims about the layout templates.                                      *)
(***************************************************************************)
LayoutsExtracted ==
    /\ "layouts" \in DOMAIN template_data
    /\ design_properties.layout_templates # EmptyDict

\* The number of placeholders of the type in the template's list.
CountOf(template, type) ==
    Cardinality({i \in 1..Len(template.placeholders) :
                    template.placeholders[i].type = type})

\* C10: determine_usage_pattern applies its rules in priority order, first
\* match winning: TITLE and SUBTITLE -> title_slide; else TITLE and BODY ->
\* content_slide; else TITLE and PICTURE -> image_slide; else more than one
\* BODY -> multi_content; else custom.
C10_PriorityOrder ==
    LayoutsExtracted =>
        \A name \in DOMAIN design_properties.layout_templates :
            LET template == design_properties.layout_templates[name]
                has(type) == CountOf(template, type) > 0
                title == has("TITLE") /\ has("SUBTITLE")
                content == has("TITLE") /\ has("BODY")
                image == has("TITLE") /\ has("PICTURE")
                multi == CountOf(template, "BODY") > 1
            IN  /\ title => template.usage_pattern = "title_slide"
                /\ ~title /\ content => template.usage_pattern = "content_slide"
                /\ ~title /\ ~content /\ image => template.usage_pattern = "image_slide"
                /\ ~title /\ ~content /\ ~image /\ multi
                       => template.usage_pattern = "multi_content"
                /\ ~title /\ ~content /\ ~image /\ ~multi
                       => template.usage_pattern = "custom"

\* A layout with TITLE, SUBTITLE and two BODY placeholders is a title_slide.
C10_Witness ==
    /\ LayoutsExtracted
    /\ \E name \in DOMAIN design_properties.layout_templates :
           LET template == design_properties.layout_templates[name]
           IN  /\ CountOf(template, "TITLE") = 1
               /\ CountOf(template, "SUBTITLE") = 1
               /\ CountOf(template, "BODY") = 2
               /\ template.placeholder_types =
                      [t \in {"TITLE", "SUBTITLE", "BODY"} |->
                          IF t = "BODY" THEN 2 ELSE 1]
               /\ template.usage_pattern = "title_slide"

\* C30: determine_usage_pattern returns multi_content only for a layout
\* without TITLE placeholder (and with more than one BODY); a layout with a
\* TITLE and more than one BODY is a title_slide if it has a SUBTITLE and a
\* content_slide if it has none.
C30_MultiContentHasNoTitle ==
    LayoutsExtracted =>
        \A name \in DOMAIN design_properties.layout_templates :
            LET template == design_properties.layout_templates[name]
            IN  /\ template.usage_pattern = "multi_content"
                       => /\ CountOf(template, "TITLE") = 0
                          /\ CountOf(template, "BODY") > 1
                /\ CountOf(template, "TITLE") > 0 /\ CountOf(template, "BODY") > 1
                       => template.usage_pattern =
                              IF CountOf(template, "SUBTITLE") > 0 THEN "title_slide"
                              ELSE "content_slide"

\* A layout with a TITLE, a PICTURE and two BODY placeholders is a
\* content_slide.
C30_Witness ==
    /\ LayoutsExtracted
    /\ \E name \in DOMAIN design_properties.layout_templates :
           LET template == design_properties.layout_templates[name]
           IN  /\ CountOf(template, "TITLE") = 1
               /\ CountOf(template, "BODY") = 2
               /\ CountOf(template, "PICTURE") = 1
               /\ template.usage_pattern = "content_slide"

(***************************************************************************)
(* Typography.  A typeface is a str, kept whole; a font role (majorFont,   *)
(* minorFont) is a dict from script to typeface, modelled as the sequence  *)
(* of its (script, typeface) items in the order of the dict.               *)
(***************************************************************************)
Str(text) == [tag |-> "str", text |-> text]

\* bool(v) for v None or a str.
Truthy(v) == v.tag = "str" /\ v.text # ""

\* font_scheme.get(role, {}): the items of the role, none if the role is absent.
RoleItems(font_scheme, role) ==
    IF role \in DOMAIN font_scheme THEN font_scheme[role] ELSE <<>>

\* items.get(script)
ItemGet(items, script) ==
    IF \E i \in 1..Len(items) : items[i][1] = script
    THEN items[CHOOSE i \in 1..Len(items) : items[i][1] = script][2]
    ELSE None

\* The font of a role: .get('latin') or .get('Jpan'), and if that is falsy the
\* first truthy typeface of the role in dict order, if there is one.
ResolveFont_JpanFirst(font_scheme, role) ==
    LET items == RoleItems(font_scheme, role)
        named == IF Truthy(ItemGet(items, "Jpan")) THEN ItemGet(items, "Jpan")
                 ELSE ItemGet(items, "latin")
        truthy == {i \in 1..Len(items) : Truthy(items[i][2])}
    IN  IF Truthy(named) \/ truthy = {} THEN named
        ELSE items[CHOOSE i \in truthy : \A j \in truthy : i <= j][2]

ResolveFont(font_scheme, role) ==
    LET items == RoleItems(font_scheme, role)
        named == IF Truthy(ItemGet(items, "latin")) THEN ItemGet(items, "latin")
                 ELSE ItemGet(items, "Jpan")
        truthy == {i \in 1..Len(items) : Truthy(items[i][2])}
    IN  IF Truthy(named) \/ truthy = {} THEN named
        ELSE items[CHOOSE i \in truthy : \A j \in truthy : i <= j][2]

\* recommended_sizes, in the order of the dict.
RecommendedSizes ==
    <<<<"title", 44>>, <<"heading", 32>>, <<"subheading", 24>>, <<"body", 18>>,
      <<"caption", 14>>>>

\* The dict stored under design_properties['typography'].
Typography(font_scheme) ==
    LET major_font == ResolveFont(font_scheme, "majorFont")
        minor_font == ResolveFont(font_scheme, "minorFont")
        primary_font ==
            IF ~Truthy(major_font) /\ ~Truthy(minor_font) THEN Str("Gothic A1")
            ELSE IF Truthy(major_font) /\ Truthy(minor_font) /\ major_font # minor_font
            THEN major_font
            ELSE IF Truthy(major_font) THEN major_font ELSE minor_font
        font_families ==
            IF ~Truthy(major_font) /\ ~Truthy(minor_font) THEN <<Str("Gothic A1")>>
            ELSE IF Truthy(major_font) /\ Truthy(minor_font) /\ major_font # minor_font
            THEN <<major_font, minor_font>>
            ELSE <<primary_font>>
        categories == {RecommendedSizes[i][1] : i \in 1..Len(RecommendedSizes)}
        SizeOf(category) ==
            RecommendedSizes[CHOOSE i \in 1..Len(RecommendedSizes) :
                                 RecommendedSizes[i][1] = category][2]
        all_sizes == [i \in 1..Len(RecommendedSizes) |-> RecommendedSizes[i][2]]
    IN  [primary_font_family |-> primary_font,
         font_families |-> font_families,
         font_hierarchy |->
             [category \in categories |->
                 <<[name |-> primary_font, size |-> SizeOf(category),
                    size_pt |-> SizeOf(category)]>>],
         total_font_variations |-> Len(all_sizes),
         size_range |->
             [min |-> CHOOSE m \in {all_sizes[i] : i \in 1..Len(all_sizes)} :
                          \A i \in 1..Len(all_sizes) : m <= all_sizes[i],
              max |-> CHOOSE m \in {all_sizes[i] : i \in 1..Len(all_sizes)} :
                          \A i \in 1..Len(all_sizes) : m >= all_sizes[i]],
         recommended_sizes |-> [category \in categories |-> SizeOf(category)]]

\* Without the key 'font_scheme' the method does nothing.
extract_typography ==
    /\ template_data # EmptyDict
    /\ IF "font_scheme" \notin DOMAIN template_data
       THEN UNCHANGED design_properties
       ELSE design_properties' =
                [design_properties EXCEPT
                    !.typography = Typography(template_data.font_scheme)]
    /\ UNCHANGED <<mapping_vars, stage_vars, template_data, image_data, escaped>>

(***************************************************************************)
(* Typography runs: a template analysis whose font scheme lists at most    *)
(* MaxFonts typefaces under each role it has, or that has no font scheme.  *)
(***************************************************************************)
Scripts == {"latin", "Jpan", "Hang"}

Typefaces == {Str(""), Str("Arial"), Str("Calibri")}

\* The dicts of a role: items of pairwise distinct scripts.
RoleDicts ==
    {items \in UNION {[1..n -> Scripts \X Typefaces] : n \in 0..MaxFonts} :
        \A i, j \in 1..Len(items) : i # j => items[i][1] # items[j][1]}

FontSchemes ==
    {EmptyDict}
        \cup {[role \in {"majorFont"} |-> major] : major \in RoleDicts}
        \cup {[role \in {"minorFont"} |-> minor] : minor \in RoleDicts}
        \cup {[majorFont |-> major, minorFont |-> minor] :
              major \in RoleDicts, minor \in RoleDicts}

FontAnalyses ==
    {[color_scheme |-> EmptyDict]}
        \cup {[color_scheme |-> EmptyDict, font_scheme |-> font_scheme] :
              font_scheme \in FontSchemes}

\* load_analysis_files, the template analysis being one of FontAnalyses.
LoadFontAnalysis ==
    /\ template_data = EmptyDict
    /\ template_data' \in FontAnalyses
    /\ UNCHANGED <<mapping_vars, stage_vars, image_data, design_properties, escaped>>

InitTypography == MappingIdle /\ ExtractorNew /\ StageIdle

NextTypography == LoadFontAnalysis \/ extract_typography

SpecTypography == InitTypography /\ [][NextTypography]_vars

(***************************************************************************)
(* Claims about the typography.                                            *)
(***************************************************************************)
TypographyExtracted ==
    /\ "font_scheme" \in DOMAIN template_data
    /\ design_properties.typography # EmptyDict

\* The typefaces a role may resolve to: its latin typeface if non-empty, else
\* its Jpan typeface if non-empty, else any non-empty typeface of the role.
FontsOfRole(role) ==
    LET items == RoleItems(template_data.font_scheme, role)
        Of(script) == {items[i][2].text : i \in {j \in 1..Len(items) : items[j][1] = script}}
                          \ {""}
    IN  IF Of("latin") # {} THEN Of("latin")
        ELSE IF Of("Jpan") # {} THEN Of("Jpan")
        ELSE {items[i][2].text : i \in 1..Len(items)} \ {""}

\* C12: each role resolves to its latin typeface, else its Jpan typeface,
\* else any non-empty typeface of the role; the primary font is major, else
\* minor, else 'Gothic A1'; the font-family list is [major, minor] when both
\* resolve and differ, and [primary] in every other case.
C12_FontResolution ==
    TypographyExtracted =>
        LET typography == design_properties.typography
            Unresolved == "(unresolved)"
            Choices(role) == IF FontsOfRole(role) = {} THEN {Unresolved}
                             ELSE FontsOfRole(role)
        IN  \E major \in Choices("majorFont"), minor \in Choices("minorFont") :
                LET primary == IF major # Unresolved THEN major
                               ELSE IF minor # Unresolved THEN minor
                               ELSE "Gothic A1"
                IN  /\ typography.primary_font_family = Str(primary)
                    /\ typography.font_families =
                           IF major # Unresolved /\ minor # Unresolved /\ major # minor
                           THEN <<Str(major), Str(minor)>>
                           ELSE <<Str(primary)>>

\* The major role has an empty latin typeface and resolves through its Hang
\* typeface, the minor role through Jpan; both are retained, major first.
C12_Witness ==
    /\ TypographyExtracted
    /\ RoleItems(template_data.font_scheme, "majorFont") =
           <<<<"latin", Str("")>>, <<"Hang", Str("Arial")>>>>
    /\ RoleItems(template_data.font_scheme, "minorFont") = <<<<"Jpan", Str("Calibri")>>>>
    /\ design_properties.typography.primary_font_family = Str("Arial")
    /\ design_properties.typography.font_families = <<Str("Arial"), Str("Calibri")>>

(***************************************************************************)
(* The merge stage as a whole: template_analyzer.analyze_theme writes the  *)
(* template analysis, run_extraction loads both analyses and runs the six  *)
(* extraction steps in order, main saves the two output files.             *)
(***************************************************************************)
TemplateAnalysisFile == "template_analysis.json"
ImageAnalysisFile == "image_analysis.json"
DesignPropertiesFile == "design_properties.json"
ConfigFile == "enhanced_template_config.json"

\* d with d[key] = value, key new or not.
DictSet(d, key, value) ==
    [k \in DOMAIN d \cup {key} |-> IF k = key THEN value ELSE d[k]]

\* get_slide_dimensions: root is the parsed presentation.xml, a dict from the
\* tags of its children to their attributes.
get_slide_dimensions(root) ==
    IF "sldSz" \in DOMAIN root
    THEN [width |-> root.sldSz.cx, height |-> root.sldSz.cy]
    ELSE EmptyDict

\* The font_scheme entry of one role: the typeface of every font element that
\* has one, under its script or, for the latin element, under 'latin'.
RECURSIVE RoleOfTheme(_)
RoleOfTheme(fonts) ==
    IF fonts = <<>> THEN <<>>
    ELSE LET font == Head(fonts)
             key == IF "script" \in DOMAIN font.attrib THEN font.attrib.script
                    ELSE "latin"
             rest == RoleOfTheme(Tail(fonts))
             kept == SelectSeq(rest, LAMBDA item : item[1] # key)
         IN  IF "typeface" \in DOMAIN font.attrib
                /\ ("script" \in DOMAIN font.attrib \/ font.tag = "latin")
             THEN IF Len(kept) = Len(rest)
                  THEN <<<<key, Str(font.attrib.typeface)>>>> \o rest
                  ELSE <<<<key, ItemGet(rest, key)>>>> \o kept
             ELSE rest

\* The analysis analyze_theme dumps to its output file.
ThemeAnalysis(theme, root) ==
    [color_scheme |-> theme.clrScheme,
     font_scheme |-> [majorFont |-> RoleOfTheme(theme.majorFont),
                      minorFont |-> RoleOfTheme(theme.minorFont)],
     slide_dimensions |-> get_slide_dimensions(root)]

\* The dict stored under design_properties['design_elements'].
DesignElements(template, image) ==
    LET layout_patterns == IF "layout_patterns" \in DOMAIN image
                           THEN image.layout_patterns ELSE EmptyDict
        Get(key, default) == IF key \in DOMAIN layout_patterns
                             THEN layout_patterns[key] ELSE default
    IN  [slide_count |-> IF "slides" \in DOMAIN template THEN Len(template.slides) ELSE 0,
         average_elements_per_slide |-> Get("avg_elements_per_slide", 1),
         layout_consistency |-> Get("element_count_variance", 0),
         design_style |-> "professional_academic",
         visual_hierarchy |-> "clean_minimal",
         content_density |-> IF Get("avg_elements_per_slide", 1) < 3 THEN "low"
                             ELSE "medium"]

\* The dict stored under design_properties['brand_guidelines'].
BrandGuidelines(properties) ==
    LET color_scheme == properties.color_scheme
        typography == properties.typography
        brand_colors == IF "brand_colors" \in DOMAIN color_scheme
                        THEN color_scheme.brand_colors ELSE EmptyDict
        Brand(name, default) == IF name \in DOMAIN brand_colors
                                THEN brand_colors[name] ELSE default
    IN  [theme |-> "Scientific Conference - Green Nature Theme",
         color_palette |->
             [primary |-> Brand("primary", HexColor("4", "5", "6", "4", "4", "6")),
              secondary |-> Brand("secondary", HexColor("e", "7", "f", "3", "e", "c")),
              accent |-> Brand("accent", HexColor("6", "f", "8", "7", "7", "0")),
              text_dark |-> HexColor("2", "d", "4", "a", "2", "e"),
              text_light |-> HexColor("f", "f", "f", "f", "f", "f"),
              background |-> HexColor("f", "f", "f", "f", "f", "f")],
         typography_scale |-> IF "recommended_sizes" \in DOMAIN typography
                              THEN typography.recommended_sizes ELSE EmptyDict,
         font_family |-> IF "primary_font_family" \in DOMAIN typography
                         THEN typography.primary_font_family ELSE Str("Gothic A1"),
         design_principles |->
             <<"Clean and minimal layout", "Nature-inspired green color scheme",
               "Professional academic presentation style",
               "Consistent typography hierarchy", "Balanced white space usage">>,
         usage_guidelines |->
             [primary_color_usage |-> "Headers, important text, accent elements",
              secondary_color_usage |-> "Backgrounds, subtle highlights",
              font_pairing |-> "Use Gothic A1 family for consistency",
              layout_spacing |-> "Maintain generous white space",
              image_treatment |-> "Clean, professional imagery with green tints"]]

\* design_properties of a new extractor.
EmptyProperties ==
    [slide_dimensions |-> EmptyDict, color_scheme |-> EmptyDict,
     typography |-> EmptyDict, layout_templates |-> EmptyDict,
     design_elements |-> EmptyDict, brand_guidelines |-> EmptyDict]

\* The six extraction steps of run_extraction on the loaded analyses, in
\* order: each of the first five fills its own section, from its own part of
\* the analyses, and create_brand_guidelines reads what the second and third
\* stored.  Only the first can raise (KeyError, on a slide_dimensions dict
\* without 'width' or 'height'), and then no later step runs.
ExtractionSteps(template, image) ==
    LET extracted ==
            [slide_dimensions |->
                 IF "slide_dimensions" \in DOMAIN template
                 THEN SlideDimensions(template.slide_dimensions) ELSE EmptyDict,
             color_scheme |->
                 IF "color_palette" \in DOMAIN image
                 THEN ColorScheme(image.color_palette) ELSE EmptyDict,
             typography |->
                 IF "font_scheme" \in DOMAIN template
                 THEN Typography(template.font_scheme) ELSE EmptyDict,
             layout_templates |->
                 IF "layouts" \in DOMAIN template
                 THEN LayoutTemplates(template.layouts) ELSE EmptyDict,
             design_elements |-> DesignElements(template, image),
             brand_guidelines |-> EmptyDict]
    IN  IF "slide_dimensions" \in DOMAIN template
           /\ ~({"width", "height"} \subseteq DOMAIN template.slide_dimensions)
        THEN [raised |-> "KeyError", design_properties |-> EmptyProperties]
        ELSE [raised |-> "none",
              design_properties |->
                  CHOOSE guided \in {[properties EXCEPT
                                         !.brand_guidelines = BrandGuidelines(properties)] :
                                     properties \in {extracted}} : TRUE]

\* generate_python_pptx_config: the reduced configuration, or the KeyError of
\* the first subscript that finds its key missing.
generate_python_pptx_config(properties) ==
    IF /\ {"width_emu", "height_emu"} \subseteq DOMAIN properties.slide_dimensions
       /\ "color_palette" \in DOMAIN properties.brand_guidelines
       /\ {"primary_font_family", "recommended_sizes"} \subseteq DOMAIN properties.typography
    THEN [raised |-> "none",
          value |->
              [slide_dimensions |->
                   [width |-> properties.slide_dimensions.width_emu,
                    height |-> properties.slide_dimensions.height_emu],
               colors |->
                   [name \in {"primary", "secondary", "accent", "text_dark", "text_light"} |->
                       properties.brand_guidelines.color_palette[name]],
               fonts |-> [primary |-> properties.typography.primary_font_family,
                          sizes |-> properties.typography.recommended_sizes],
               layouts |-> properties.layout_templates]]
    ELSE [raised |-> "KeyError", value |-> None]

RunExtraction_IgnoresMissingImage ==
    LET has_template == TemplateAnalysisFile \in DOMAIN files
        has_image == ImageAnalysisFile \in DOMAIN files
        template == IF has_template THEN files[TemplateAnalysisFile] ELSE EmptyDict
        image == IF has_template /\ has_image THEN files[ImageAnalysisFile] ELSE EmptyDict
    IN  [template_data |-> template,
         image_data |-> image,
         loaded |-> has_template,
         steps |-> IF has_template THEN ExtractionSteps(template, image)
                   ELSE [raised |-> "none", design_properties |-> EmptyProperties]]

\* load_analysis_files then the extraction steps.  The template analysis is
\* loaded first; a missing file ends the run before any step.
RunExtraction ==
    LET has_template == TemplateAnalysisFile \in DOMAIN files
        has_image == ImageAnalysisFile \in DOMAIN files
        template == IF has_template THEN files[TemplateAnalysisFile] ELSE EmptyDict
        image == IF has_template /\ has_image THEN files[ImageAnalysisFile] ELSE EmptyDict
    IN  [template_data |-> template,
         image_data |-> image,
         loaded |-> has_template /\ has_image,
         steps |-> IF has_template /\ has_image THEN ExtractionSteps(template, image)
                   ELSE [raised |-> "none", design_properties |-> EmptyProperties]]

\* extractor.run_extraction() on a new extractor: None if a file is missing,
\* the properties if every step returned.
run_extraction ==
    /\ call = NoCall
    /\ template_data = EmptyDict
    /\ call' = [op |-> "run_extraction"]
    /\ \E run \in {RunExtraction} :
           /\ template_data' = run.template_data
           /\ image_data' = run.image_data
           /\ design_properties' = run.steps.design_properties
           /\ escaped' = run.steps.raised
           /\ result' = [raised |-> run.steps.raised,
                         value |-> IF run.loaded /\ run.steps.raised = "none"
                                   THEN [tag |-> "design_properties", addr |-> <<>>]
                                   ELSE None,
                         errors |-> <<>>]
    /\ UNCHANGED <<data, edits, slides_config, custom_configs, stage_vars>>

\* main(): a new extractor, run_extraction, and when it returned the
\* properties save_design_properties, then save_python_pptx_config, which
\* generates the configuration before it opens its file.
main ==
    /\ call = NoCall
    /\ template_data = EmptyDict
    /\ call' = [op |-> "main"]
    /\ \E run \in {RunExtraction} :
         \E config \in {generate_python_pptx_config(run.steps.design_properties)} :
           LET returned == run.loaded /\ run.steps.raised = "none"
               saved == DictSet(files, DesignPropertiesFile, run.steps.design_properties)
           IN  /\ template_data' = run.template_data
               /\ image_data' = run.image_data
               /\ design_properties' = run.steps.design_properties
               /\ escaped' = IF returned THEN config.raised ELSE run.steps.raised
               /\ result' = [NoResult EXCEPT !.raised = escaped']
               /\ files' = IF ~returned THEN files
                           ELSE IF config.raised # "none" THEN saved
                           ELSE DictSet(saved, ConfigFile, config.value)
    /\ UNCHANGED <<data, edits, slides_config, custom_configs, design_config, prs, log>>

(***************************************************************************)
(* Merge runs: each analysis file is absent or holds one of a few          *)
(* analyses; an absent template analysis may be written by analyze_theme.  *)
(***************************************************************************)
\* A dict with the one key, or the empty dict if the choice is empty.
Optional(key, choice) ==
    IF choice = <<>> THEN EmptyDict ELSE [k \in {key} |-> choice[1]]

N16 == Numeral(<<"1", "6">>, <<>>)
N9 == Numeral(<<"9">>, <<>>)
NativeWidth == Numeral(<<"1", "2", "1", "9", "2", "0", "0", "0">>, <<>>)
NativeHeight == Numeral(<<"6", "8", "5", "8", "0", "0", "0">>, <<>>)

MergeTemplateAnalyses ==
    LET dimensions == {<<>>, <<EmptyDict>>, <<[width |-> N16, height |-> N9]>>,
                       <<[width |-> NativeWidth, height |-> NativeHeight]>>}
        fonts == {<<>>, <<[majorFont |-> <<>>, minorFont |-> <<>>]>>,
                  <<[majorFont |-> <<<<"latin", Str("Arial")>>>>,
                     minorFont |-> <<<<"latin", Str("Calibri")>>>>]>>}
        layouts == {<<>>,
                    <<<<[name |-> "Title Slide",
                         placeholders |-> <<[type |-> "TITLE", idx |-> 0],
                                            [type |-> "SUBTITLE", idx |-> 1]>>]>>>>}
    IN  {Optional("slide_dimensions", d) @@ Optional("font_scheme", f)
             @@ Optional("layouts", l) @@ Optional("slides", l) :
         d \in dimensions, f \in fonts, l \in layouts}

MergeImageAnalyses ==
    LET Palette(colors) ==
            [most_common_colors |-> colors,
             total_unique_colors |-> Len(colors),
             color_consistency |-> "high"]
    IN  {[layout_patterns |-> [avg_elements_per_slide |-> 4, element_count_variance |-> 1]],
         [color_palette |-> Palette(<<>>)],
         [color_palette |->
              Palette(<<<<HexColor("4", "c", "a", "f", "5", "0"), 20>>,
                        <<HexColor("f", "f", "f", "f", "f", "f"), 10>>>>),
          layout_patterns |-> EmptyDict]}

Themes ==
    {[clrScheme |-> EmptyDict, majorFont |-> <<>>, minorFont |-> <<>>],
     [clrScheme |-> [dk1 |-> "000000"],
      majorFont |-> <<[tag |-> "latin", attrib |-> [typeface |-> "Arial"]],
                      [tag |-> "ea", attrib |-> [typeface |-> ""]],
                      [tag |-> "font", attrib |-> [script |-> "Jpan", typeface |-> "MS Gothic"]]>>,
      minorFont |-> <<[tag |-> "font", attrib |-> [script |-> "Jpan", typeface |-> "MS Gothic"]],
                      [tag |-> "latin", attrib |-> [panose |-> "0"]]>>]}

PresentationXmls ==
    {[sldIdLst |-> EmptyDict],
     [sldIdLst |-> EmptyDict, sldSz |-> [cx |-> NativeWidth, cy |-> NativeHeight]]}

\* analyze_theme(theme_file, presentation_xml_file, 'template_analysis.json')
analyze_theme ==
    /\ call = NoCall
    /\ TemplateAnalysisFile \notin DOMAIN files
    /\ \E theme \in Themes, root \in PresentationXmls :
           files' = DictSet(files, TemplateAnalysisFile, ThemeAnalysis(theme, root))
    /\ UNCHANGED <<mapping_vars, extractor_vars, design_config, prs, log>>

InitMerge ==
    /\ MappingIdle
    /\ ExtractorNew
    /\ \E template \in {<<>>} \cup {<<t>> : t \in MergeTemplateAnalyses},
          image \in {<<>>} \cup {<<i>> : i \in MergeImageAnalyses} :
           files = Optional(TemplateAnalysisFile, template)
                       @@ Optional(ImageAnalysisFile, image)
    /\ design_config = EmptyDict
    /\ prs = [layouts |-> <<>>, slides |-> <<>>, saved |-> FALSE]
    /\ log = <<>>

NextMerge == analyze_theme \/ run_extraction \/ main

SpecMerge == InitMerge /\ [][NextMerge]_vars

(***************************************************************************)
(* Claims about the merge stage.                                           *)
(***************************************************************************)
MergeCalled == call.op \in {"run_extraction", "main"}

BothLoaded == {TemplateAnalysisFile, ImageAnalysisFile} \subseteq DOMAIN files

\* The typography output has exactly the five tiers, with their sizes, each
\* bound to the primary font family.
FiveTiers(typography) ==
    /\ {"primary_font_family", "recommended_sizes", "font_hierarchy"}
           \subseteq DOMAIN typography
    /\ typography.recommended_sizes =
           [title |-> 44, heading |-> 32, subheading |-> 24, body |-> 18, caption |-> 14]
    /\ DOMAIN typography.font_hierarchy = DOMAIN typography.recommended_sizes
    /\ \A tier \in DOMAIN typography.font_hierarchy :
           typography.font_hierarchy[tier] =
               <<[name |-> typography.primary_font_family,
                  size |-> typography.recommended_sizes[tier],
                  size_pt |-> typography.recommended_sizes[tier]]>>

\* C11: for every template analysis that loads, whatever font roles it has,
\* the typography output has the five tiers title 44, heading 32,
\* subheading 24, body 18, caption 14, each bound to the resolved primary
\* font family, so that the reduced configuration can be generated from it.
C11_AsStated ==
    MergeCalled /\ BothLoaded /\ design_properties.design_elements # EmptyDict
        => /\ FiveTiers(design_properties.typography)
           /\ call.op = "main" /\ design_properties.slide_dimensions # EmptyDict
                  => ConfigFile \in DOMAIN files

\* C19: a template without size element gives the empty structure, and the
\* merger given that empty slide_dimensions structure does not raise and
\* leaves the dimensions unset.
C19_AsStated ==
    /\ get_slide_dimensions([sldIdLst |-> EmptyDict]) = EmptyDict
    /\ ( /\ MergeCalled
         /\ BothLoaded
         /\ "slide_dimensions" \in DOMAIN template_data
         /\ template_data.slide_dimensions = EmptyDict )
        => /\ escaped = "none"
           /\ design_properties.slide_dimensions = EmptyDict
           /\ design_properties.design_elements # EmptyDict

\* C20: if either analysis file is absent, run_extraction returns None with
\* the six sections of design_properties still empty, no exception escapes,
\* and main writes neither output file.
C20_MissingInputAborts ==
    MergeCalled /\ ~BothLoaded
        => /\ result.value = None
           /\ result.raised = "none"
           /\ escaped = "none"
           /\ design_properties = EmptyProperties
           /\ image_data = EmptyDict
           /\ DOMAIN files \cap {DesignPropertiesFile, ConfigFile} = {}

\* main has run on a complete template analysis with no image analysis next
\* to it.
C20_Witness ==
    /\ call.op = "main"
    /\ DOMAIN files = {TemplateAnalysisFile}
    /\ {"slide_dimensions", "font_scheme", "layouts"} \subseteq DOMAIN template_data
    /\ "width" \in DOMAIN template_data.slide_dimensions
    /\ design_properties = EmptyProperties
    /\ result.raised = "none"

(***************************************************************************)
(* EnhancedPresentationGenerator (enhanced_presentation_generator.py).     *)
(*                                                                         *)
(* A text is a sequence of symbols: NL is the line feed, VT the vertical   *)
(* tab a paragraph reads back for a line break, VAR the jinja expression   *)
(* {{ presenter }}, BAD a block tag jinja cannot parse; any other symbol   *)
(* is a piece of plain text.  A slide has the placeholders of its layout:  *)
(* the title placeholder (idx 0) and the subtitle/body placeholder         *)
(* (idx 1), each with the paragraphs of its text frame.  A paragraph with  *)
(* text has runs, which carry the font; an empty paragraph has none.       *)
(***************************************************************************)
NL == "LF"
VT == "VT"
VAR == "{{ presenter }}"
BAD == "{% if %}"
VarName == "presenter"

\* d.get(key, default)
DictGet(d, key, default) == IF key \in DOMAIN d THEN d[key] ELSE default

\* jinja drops one trailing line feed of a template source.
StripTrailingNL(text) ==
    IF text # <<>> /\ text[Len(text)] = NL THEN SubSeq(text, 1, Len(text) - 1)
    ELSE text

\* The source with every expression replaced by its value in the context; an
\* undefined variable renders as the empty text.
RECURSIVE Substitute(_, _)
Substitute(text, context) ==
    IF text = <<>> THEN <<>>
    ELSE (IF Head(text) = VAR THEN DictGet(context, VarName, <<>>)
          ELSE <<Head(text)>>)
         \o Substitute(Tail(text), context)

\* jinja_env.from_string(text).render(**data)
process_text_with_jinja(text, context) ==
    IF \E i \in 1..Len(text) : text[i] = BAD
    THEN [raised |-> "TemplateSyntaxError", value |-> <<>>]
    ELSE [raised |-> "none", value |-> Substitute(StripTrailingNL(text), context)]

\* The font of runs nothing has styled, and a paragraph of such runs.
NoFont == [name |-> None, size |-> 0, rgb |-> <<>>]
Paragraph(text) == [text |-> text, level |-> 0, font |-> NoFont]

\* text.split("\n")
RECURSIVE SplitLines(_)
SplitLines(text) ==
    IF \A i \in 1..Len(text) : text[i] # NL THEN <<text>>
    ELSE LET i == CHOOSE i \in 1..Len(text) :
                      text[i] = NL /\ \A j \in 1..(i - 1) : text[j] # NL
         IN  <<SubSeq(text, 1, i - 1)>> \o SplitLines(SubSeq(text, i + 1, Len(text)))

\* paragraph.text = text: a line feed becomes a line break of the paragraph.
ParagraphSetText(text) ==
    Paragraph([i \in 1..Len(text) |-> IF text[i] = NL THEN VT ELSE text[i]])

\* text_frame.text = text (also shape.text = text): the paragraphs of the
\* frame are replaced by one paragraph for each line of the text.
TextFrameSetText(text) ==
    LET lines == SplitLines(text)
    IN  [i \in 1..Len(lines) |-> Paragraph(lines[i])]

\* text_frame.clear(): one paragraph, without runs.
ClearedFrame == <<Paragraph(<<>>)>>

\* A placeholder of a new slide, and the placeholder a layout does not have.
NoShape == [present |-> FALSE, paragraphs |-> <<>>]
Shape(paragraphs) == [present |-> TRUE, paragraphs |-> paragraphs]

UpperHexChars == <<"0", "1", "2", "3", "4", "5", "6", "7", "8", "9",
                   "A", "B", "C", "D", "E", "F">>

\* The value of a hex digit of either case, -1 for any other character.
HexDigit(c) ==
    IF \E n \in 1..16 : HexChars[n] = c
    THEN (CHOOSE n \in 1..16 : HexChars[n] = c) - 1
    ELSE IF \E n \in 1..16 : UpperHexChars[n] = c
    THEN (CHOOSE n \in 1..16 : UpperHexChars[n] = c) - 1
    ELSE -1

\* _hex_to_rgb: int(hex_color[i:i+2], 16) for i in (0, 2, 4) after
\* lstrip('#'); int raises ValueError on an empty slice or on a character
\* that is no hex digit.
_hex_to_rgb(hex_color) ==
    LET digits == LStripHash(hex_color)
        Slice(i) == SubSeq(digits, i, IF i + 1 <= Len(digits) THEN i + 1 ELSE Len(digits))
        Valid(s) == s # <<>> /\ \A k \in 1..Len(s) : HexDigit(s[k]) >= 0
        Value(s) == IF Len(s) = 1 THEN HexDigit(s[1])
                    ELSE 16 * HexDigit(s[1]) + HexDigit(s[2])
    IN  IF Valid(Slice(1)) /\ Valid(Slice(3)) /\ Valid(Slice(5))
        THEN [raised |-> "none", value |-> <<Value(Slice(1)), Value(Slice(3)), Value(Slice(5))>>]
        ELSE [raised |-> "ValueError", value |-> <<>>]

FontStylingError == "Could not apply font styling"
BackgroundStylingError == "Could not apply background styling"

\* _apply_font_styling on the paragraphs of a text frame: every run gets the
\* family fonts.primary, the size fonts.<font_type>_size and the color
\* color_scheme.text_dark of the design configuration, each with the
\* default of the code when the key is missing.  A color that is no hex
\* color raises at the first run, after its name and size are set; the
\* exception is caught and reported.
_apply_font_styling(config, paragraphs, font_type) ==
    LET fonts_config == DictGet(config, "fonts", EmptyDict)
        font_family == DictGet(fonts_config, "primary", Str("Calibri"))
        size_map == [title |-> DictGet(fonts_config, "title_size", 44),
                     heading |-> DictGet(fonts_config, "heading_size", 32),
                     subheading |-> DictGet(fonts_config, "subheading_size", 24),
                     body |-> DictGet(fonts_config, "body_size", 18),
                     caption |-> DictGet(fonts_config, "caption_size", 14)]
        font_size == DictGet(size_map, font_type, 18)
        color_scheme == DictGet(config, "color_scheme", EmptyDict)
        rgb == _hex_to_rgb(DictGet(color_scheme, "text_dark", HexColor("0", "0", "0", "0", "0", "0")))
        runs == {i \in 1..Len(paragraphs) : paragraphs[i].text # <<>>}
        Styled(p, color) == [text |-> p.text, level |-> p.level,
                             font |-> [name |-> font_family, size |-> font_size,
                                       rgb |-> color]]
    IN  IF runs = {} THEN [paragraphs |-> paragraphs, log |-> <<>>]
        ELSE IF rgb.raised = "none"
        THEN [paragraphs |-> [i \in 1..Len(paragraphs) |->
                                 IF i \in runs THEN Styled(paragraphs[i], rgb.value)
                                 ELSE paragraphs[i]],
              log |-> <<>>]
        ELSE [paragraphs |-> [i \in 1..Len(paragraphs) |->
                                 IF i \in runs /\ \A j \in runs : i <= j
                                 THEN Styled(paragraphs[i], <<>>)
                                 ELSE paragraphs[i]],
              log |-> <<FontStylingError>>]

ColorSchemeError == "Could not apply color scheme"

\* _apply_color_scheme(shape, color_type): the color is converted before
\* the shape is touched, so that a color that is no hex color leaves the
\* shape as it was; a shape without fill attribute is left alone.
_apply_color_scheme(config, shape, color_type) ==
    LET color_scheme == DictGet(config, "color_scheme", EmptyDict)
        rgb == _hex_to_rgb(DictGet(color_scheme, color_type,
                                   HexColor("4", "4", "7", "2", "C", "4")))
    IN  IF rgb.raised # "none" THEN [shape |-> shape, log |-> <<ColorSchemeError>>]
        ELSE IF ~shape.has_fill THEN [shape |-> shape, log |-> <<>>]
        ELSE [shape |-> [shape EXCEPT !.fill = "solid", !.rgb = rgb.value], log |-> <<>>]

\* _get_default_design_config
DefaultDesignConfig ==
    [slide_dimensions |-> [width |-> RatOfInt(10), height |-> Rat(15, 2)],
     color_scheme |-> [primary |-> HexColor("4", "4", "7", "2", "C", "4"),
                       secondary |-> HexColor("E", "7", "E", "6", "E", "6"),
                       accent |-> HexColor("7", "0", "A", "D", "4", "7"),
                       text_dark |-> HexColor("0", "0", "0", "0", "0", "0"),
                       text_light |-> HexColor("F", "F", "F", "F", "F", "F")],
     fonts |-> [primary |-> Str("Calibri"), title_size |-> 44,
                heading_size |-> 32, body_size |-> 18]]

\* json.load of a configuration file: the numbers of slide_dimensions are
\* held as rationals, as the 7.5 of the default configuration is.
LoadedConfig(content) ==
    IF "slide_dimensions" \in DOMAIN content
    THEN [content EXCEPT !.slide_dimensions =
              [k \in DOMAIN content.slide_dimensions |->
                  RatOfInt(content.slide_dimensions[k])]]
    ELSE content

\* A slide newly added on a layout: the placeholders of the layout, empty,
\* and the background of the layout.
NewSlide(layouts, layout_index) ==
    LET layout == layouts[layout_index + 1]
        Placeholder(has) == IF has THEN Shape(ClearedFrame) ELSE NoShape
    IN  [layout |-> layout_index,
         title |-> Placeholder(layout.title),
         body |-> Placeholder(layout.body),
         background |-> [fill |-> "inherited", rgb |-> <<>>]]

NoSlide ==
    [layout |-> -1, title |-> NoShape, body |-> NoShape,
     background |-> [fill |-> "inherited", rgb |-> <<>>]]

\* _create_styled_slide(prs, layout_index): prs.slide_layouts[layout_index]
\* raises IndexError outside the try; the background is filled when
\* color_scheme.background is truthy and differs from the str "#FFFFFF".
\* fill.solid() comes before the conversion of the color, so that a color
\* that is no hex color leaves a solid fill without color and a diagnostic.
_create_styled_slide(config, layouts, layout_index) ==
    IF layout_index + 1 > Len(layouts)
    THEN [raised |-> "IndexError", slide |-> NoSlide, log |-> <<>>]
    ELSE LET slide == NewSlide(layouts, layout_index)
             color_scheme == DictGet(config, "color_scheme", EmptyDict)
             bg_color == DictGet(color_scheme, "background", <<>>)
             rgb == _hex_to_rgb(bg_color)
         IN  IF bg_color = <<>> \/ bg_color = HexColor("F", "F", "F", "F", "F", "F")
             THEN [raised |-> "none", slide |-> slide, log |-> <<>>]
             ELSE IF rgb.raised = "none"
             THEN [raised |-> "none",
                   slide |-> [slide EXCEPT !.background =
                                 [fill |-> "solid", rgb |-> rgb.value]],
                   log |-> <<>>]
             ELSE [raised |-> "none",
                   slide |-> [slide EXCEPT !.background =
                                 [fill |-> "solid", rgb |-> <<>>]],
                   log |-> <<BackgroundStylingError>>]

\* shape.text = text, then _apply_font_styling(shape.text_frame, font_type).
BindText(config, text, font_type) ==
    LET styled == _apply_font_styling(config, TextFrameSetText(text), font_type)
    IN  [shape |-> Shape(styled.paragraphs), log |-> styled.log]

\* The same on the text process_text_with_jinja returns; when it raises the
\* shape is left as it was.
BindProcessed(config, shape, text, context, font_type) ==
    LET processed == process_text_with_jinja(text, context)
        bound == BindText(config, processed.value, font_type)
    IN  IF processed.raised = "none"
        THEN [raised |-> "none", shape |-> bound.shape, log |-> bound.log]
        ELSE [raised |-> processed.raised, shape |-> shape, log |-> <<>>]

SubtitlePlaceholderMissing == "Could not find subtitle placeholder"
ContentPlaceholderMissing == "Could not update content placeholder"
BodyPlaceholderMissing == "Could not find body placeholder for XML content"
LayoutNotFound == "Layout not found. Using default."
XmlSlideError == "Error creating slide from XML"

\* What a slide-building method leaves: the exception it lets escape, the
\* slides it added to prs.slides and the diagnostics it printed.
Built(raised, slides, diagnostics) ==
    [raised |-> raised, slides |-> slides, log |-> diagnostics]

\* create_enhanced_title_slide(prs, data)
create_enhanced_title_slide(config, layouts, d) ==
    LET made == _create_styled_slide(config, layouts, 0)
        slide == made.slide
        title_slide == DictGet(DictGet(d, "presentation_data", EmptyDict),
                               "title_slide", EmptyDict)
        title == IF slide.title.present
                 THEN BindProcessed(config, slide.title,
                                    DictGet(title_slide, "title", <<"Presentation Title">>),
                                    d, "title")
                 ELSE [raised |-> "none", shape |-> slide.title, log |-> <<>>]
        subtitle == BindProcessed(config, slide.body,
                                  DictGet(title_slide, "subtitle", <<"Subtitle">>),
                                  d, "heading")
        titled == [slide EXCEPT !.title = title.shape]
    IN  IF made.raised # "none" THEN Built(made.raised, <<>>, <<>>)
        ELSE IF title.raised # "none" THEN Built(title.raised, <<slide>>, made.log)
        ELSE IF ~slide.body.present
        THEN Built("none", <<titled>>,
                   made.log \o title.log \o <<SubtitlePlaceholderMissing>>)
        ELSE IF subtitle.raised # "none"
        THEN Built(subtitle.raised, <<titled>>, made.log \o title.log)
        ELSE Built("none", <<[titled EXCEPT !.body = subtitle.shape]>>,
                   made.log \o title.log \o subtitle.log)

RECURSIVE Flatten(_)
Flatten(seqs) == IF seqs = <<>> THEN <<>> ELSE Head(seqs) \o Flatten(Tail(seqs))

\* The loop over a list content, on the cleared text frame: the first item
\* is assigned to text_frame.text, every later one to the text of a new
\* paragraph; an item jinja cannot process raises and leaves the frame with
\* the items before it.
BulletParagraphs(items, context) ==
    LET processed == [i \in 1..Len(items) |-> process_text_with_jinja(items[i], context)]
        failing == {i \in 1..Len(items) : processed[i].raised # "none"}
        done == IF failing = {} THEN Len(items)
                ELSE (CHOOSE i \in failing : \A j \in failing : i <= j) - 1
    IN  [raised |-> IF failing = {} THEN "none" ELSE "TemplateSyntaxError",
         paragraphs |->
             IF done = 0 THEN ClearedFrame
             ELSE Flatten([i \in 1..done |->
                              IF i = 1 THEN TextFrameSetText(processed[i].value)
                              ELSE <<ParagraphSetText(processed[i].value)>>])]

\* create_enhanced_content_slide(prs, slide_data, data).  A content is a
\* list of items or a single text: [list |-> ..., items |-> ...].
create_enhanced_content_slide(config, layouts, slide_data, d) ==
    LET made == _create_styled_slide(config, layouts, 1)
        slide == made.slide
        title == IF slide.title.present
                 THEN BindProcessed(config, slide.title,
                                    DictGet(slide_data, "title", <<"Slide Title">>),
                                    d, "heading")
                 ELSE [raised |-> "none", shape |-> slide.title, log |-> <<>>]
        titled == [slide EXCEPT !.title = title.shape]
        content == DictGet(slide_data, "content", [list |-> TRUE, items |-> <<>>])
        filled == IF content.list THEN BulletParagraphs(content.items, d)
                  ELSE LET processed == process_text_with_jinja(content.items[1], d)
                       IN  [raised |-> processed.raised,
                            paragraphs |-> IF processed.raised = "none"
                                           THEN TextFrameSetText(processed.value)
                                           ELSE ClearedFrame]
        styled == _apply_font_styling(config, filled.paragraphs, "body")
    IN  IF made.raised # "none" THEN Built(made.raised, <<>>, <<>>)
        ELSE IF title.raised # "none" THEN Built(title.raised, <<slide>>, made.log)
        ELSE IF ~slide.body.present
        THEN Built("none", <<titled>>,
                   made.log \o title.log \o <<ContentPlaceholderMissing>>)
        ELSE IF filled.raised # "none"
        THEN Built(filled.raised,
                   <<[titled EXCEPT !.body = Shape(filled.paragraphs)]>>,
                   made.log \o title.log)
        ELSE Built("none", <<[titled EXCEPT !.body = Shape(styled.paragraphs)]>>,
                   made.log \o title.log \o styled.log)

SelectLayout_NoFallback(layouts, layout_name) ==
    LET named == {i \in 1..Len(layouts) : layouts[i].name = layout_name}
    IN  IF named = {} THEN [index |-> Len(layouts), log |-> <<LayoutNotFound>>]
        ELSE [index |-> (CHOOSE i \in named : \A j \in named : i <= j) - 1,
              log |-> <<>>]

\* The layout create_slide_from_xml uses: the first layout of that name,
\* or, reported, prs.slide_layouts[0].
SelectLayout(layouts, layout_name) ==
    LET named == {i \in 1..Len(layouts) : layouts[i].name = layout_name}
    IN  IF named = {} THEN [index |-> 0, log |-> <<LayoutNotFound>>]
        ELSE [index |-> (CHOOSE i \in named : \A j \in named : i <= j) - 1,
              log |-> <<>>]

\* The loop over root.findall('.//shape').  The parsed slide_xml is the
\* sequence of its shape elements, each with its type attribute and its
\* text; the text of an element without text is None, and assigning None to
\* the text of a shape raises after the frame has lost its paragraphs.
\* Only the KeyError of a missing body placeholder is caught inside the
\* loop; any other exception ends the loop at the except of the method.
RECURSIVE XmlShapes_MissingBodyAborts(_, _, _, _)
XmlShapes_MissingBodyAborts(config, slide, elements, diagnostics) ==
    IF elements = <<>> THEN [slide |-> slide, log |-> diagnostics]
    ELSE LET element == Head(elements)
             bound == BindText(config, element.text,
                               IF element.type = "title" THEN "title" ELSE "body")
         IN  IF element.type = "title" /\ slide.title.present
             THEN IF element.text = <<>>
                  THEN [slide |-> [slide EXCEPT !.title = Shape(<<>>)],
                        log |-> diagnostics \o <<XmlSlideError>>]
                  ELSE XmlShapes_MissingBodyAborts(
                           config, [slide EXCEPT !.title = bound.shape],
                           Tail(elements), diagnostics \o bound.log)
             ELSE IF element.type = "body" /\ ~slide.body.present
             THEN [slide |-> slide, log |-> diagnostics \o <<XmlSlideError>>]
             ELSE IF element.type = "body"
             THEN IF element.text = <<>>
                  THEN [slide |-> [slide EXCEPT !.body = Shape(<<>>)],
                        log |-> diagnostics \o <<XmlSlideError>>]
                  ELSE XmlShapes_MissingBodyAborts(
                           config, [slide EXCEPT !.body = bound.shape],
                           Tail(elements), diagnostics \o bound.log)
             ELSE XmlShapes_MissingBodyAborts(config, slide, Tail(elements),
                                              diagnostics)

RECURSIVE XmlShapes(_, _, _, _)
XmlShapes(config, slide, elements, diagnostics) ==
    IF elements = <<>> THEN [slide |-> slide, log |-> diagnostics]
    ELSE LET element == Head(elements)
             bound == BindText(config, element.text,
                               IF element.type = "title" THEN "title" ELSE "body")
         IN  IF element.type = "title" /\ slide.title.present
             THEN IF element.text = <<>>
                  THEN [slide |-> [slide EXCEPT !.title = Shape(<<>>)],
                        log |-> diagnostics \o <<XmlSlideError>>]
                  ELSE XmlShapes(config, [slide EXCEPT !.title = bound.shape],
                                 Tail(elements), diagnostics \o bound.log)
             ELSE IF element.type = "body" /\ ~slide.body.present
             THEN XmlShapes(config, slide, Tail(elements),
                            diagnostics \o <<BodyPlaceholderMissing>>)
             ELSE IF element.type = "body"
             THEN IF element.text = <<>>
                  THEN [slide |-> [slide EXCEPT !.body = Shape(<<>>)],
                        log |-> diagnostics \o <<XmlSlideError>>]
                  ELSE XmlShapes(config, [slide EXCEPT !.body = bound.shape],
                                 Tail(elements), diagnostics \o bound.log)
             ELSE XmlShapes(config, slide, Tail(elements), diagnostics)

\* create_slide_from_xml(prs, slide_xml, layout_name): the whole body is in
\* a try that catches every Exception, so nothing escapes.
create_slide_from_xml(config, layouts, slide_xml, layout_name) ==
    LET Shapes(selected) ==
            Once(LAMBDA shapes : Built("none", <<shapes.slide>>, shapes.log),
                 XmlShapes(config, NewSlide(layouts, selected.index), slide_xml,
                           selected.log))
        Slide(selected) ==
            IF selected.index + 1 > Len(layouts)
            THEN Built("none", <<>>, selected.log \o <<XmlSlideError>>)
            ELSE Shapes(selected)
    IN  Once(Slide, SelectLayout(layouts, layout_name))

\* The layout name and the template file of each slide type.
SlideTypes ==
    [title_and_content |-> [layout_name |-> "Title and Content",
                            template_name |-> "title_and_content_slide.xml"],
     section_header |-> [layout_name |-> "Section Header",
                         template_name |-> "section_header_slide.xml"],
     two_content |-> [layout_name |-> "Two Content",
                      template_name |-> "two_content_slide.xml"],
     comparison |-> [layout_name |-> "Comparison",
                     template_name |-> "comparison_slide.xml"],
     title_only |-> [layout_name |-> "Title Only",
                     template_name |-> "title_only_slide.xml"],
     blank |-> [layout_name |-> "Blank", template_name |-> "blank_slide.xml"],
     content_with_caption |-> [layout_name |-> "Content with Caption",
                               template_name |-> "content_with_caption_slide.xml"],
     picture_with_caption |-> [layout_name |-> "Picture with Caption",
                               template_name |-> "picture_with_caption_slide.xml"]]

\* jinja_env.get_template(name).render(context), parsed: a template file is
\* the sequence of its shape elements, each with the variable its text is;
\* an undefined variable leaves the element without text.
RenderXml(template, context) ==
    [i \in 1..Len(template) |->
        [type |-> template[i].type,
         text |-> DictGet(context, template[i].field, <<>>)]]

\* One slide of generate_enhanced_presentation: get_template in the
\* templates/ directory, render, create_slide_from_xml.  get_template raises TemplateNotFound and
\* slide_info['data'] raises KeyError, neither inside a try.
RenderedSlide(config, layouts, directory, template_name, layout_name, holder, key) ==
    IF template_name \notin DOMAIN directory
    THEN Built("TemplateNotFound", <<>>, <<>>)
    ELSE IF key \notin DOMAIN holder THEN Built("KeyError", <<>>, <<>>)
    ELSE create_slide_from_xml(config, layouts,
                               RenderXml(directory[template_name], holder[key]),
                               layout_name)

\* The loop over presentation_data.get('slides', []), from entry i on.
RECURSIVE ContentSlides(_, _, _, _, _)
ContentSlides(config, layouts, directory, slides, i) ==
    IF i > Len(slides) THEN Built("none", <<>>, <<>>)
    ELSE LET slide_info == slides[i]
             slide_type == DictGet(slide_info, "type", "content")
             Rest(one) ==
                 IF one.raised # "none" THEN one
                 ELSE Once(LAMBDA rest : Built(rest.raised, one.slides \o rest.slides,
                                               one.log \o rest.log),
                           ContentSlides(config, layouts, directory, slides, i + 1))
         IN  IF slide_type \notin DOMAIN SlideTypes
             THEN ContentSlides(config, layouts, directory, slides, i + 1)
             ELSE Once(Rest, RenderedSlide(config, layouts, directory,
                                           SlideTypes[slide_type].template_name,
                                           SlideTypes[slide_type].layout_name,
                                           slide_info, "data"))

SlideDimensionsError == "Could not set slide dimensions"

\* The slide size generate_enhanced_presentation sets: Inches(width) below
\* 100000, the value itself from there on.  The presentation takes integers
\* from 1 to 56 inches and raises on anything else, the width being assigned
\* first; the exception is caught and reported.  Inches(x) is
\* int(x * 914400), which is beyond 56 inches for every x from 57 on.
SizedPresentation(config, presentation) ==
    LET slide_dims == DictGet(config, "slide_dimensions", EmptyDict)
        inches == RatLess(slide_dims.width, RatOfInt(100000))
        InRange(emu) == emu >= EMU_PER_INCH /\ emu <= 56 * EMU_PER_INCH
        Taken(x) == IF inches
                    THEN /\ x.num > 0
                         /\ RatLess(x, RatOfInt(57))
                         /\ InRange(EmuOfInches(x))
                    ELSE x.den = 1 /\ InRange(x.num)
        Emu(x) == IF inches THEN EmuOfInches(x) ELSE x.num
    IN  IF ~({"width", "height"} \subseteq DOMAIN slide_dims)
        THEN [prs |-> presentation, log |-> <<>>]
        ELSE IF ~Taken(slide_dims.width)
        THEN [prs |-> presentation, log |-> <<SlideDimensionsError>>]
        ELSE IF ~Taken(slide_dims.height)
        THEN [prs |-> [presentation EXCEPT !.slide_width = Emu(slide_dims.width)],
              log |-> <<SlideDimensionsError>>]
        ELSE [prs |-> [presentation EXCEPT !.slide_width = Emu(slide_dims.width),
                                           !.slide_height = Emu(slide_dims.height)],
              log |-> <<>>]

\* Presentation(template_path)
Presentation(template) ==
    [layouts |-> template.layouts, slides |-> <<>>, saved |-> FALSE,
     slide_width |-> template.slide_width, slide_height |-> template.slide_height]

\* generate_enhanced_presentation up to the save: the presentation with its
\* size set, the title slide when the data has one, then the content slides.
GeneratedSlides(config, layouts, directory, d) ==
    LET presentation_data == DictGet(d, "presentation_data", EmptyDict)
        Content(title) ==
            IF title.raised # "none" THEN title
            ELSE Once(LAMBDA content : Built(content.raised,
                                             title.slides \o content.slides,
                                             title.log \o content.log),
                      ContentSlides(config, layouts, directory,
                                    DictGet(presentation_data, "slides", <<>>), 1))
    IN  Once(Content,
             IF "title_slide" \in DOMAIN presentation_data
             THEN RenderedSlide(config, layouts, directory, "title_slide.xml",
                                "Title Slide", presentation_data, "title_slide")
             ELSE Built("none", <<>>, <<>>))

(***************************************************************************)
(* Assembly runs.  The working directory holds the template, the jinja     *)
(* templates and, or not, a design configuration: the reduced              *)
(* configuration the merger writes for one of a few analyses, or a         *)
(* configuration written by hand with one of a few backgrounds.            *)
(***************************************************************************)
MaxItems == 2           \* items of a list content
MaxShapes == 2          \* shape elements of a slide_xml
MaxDeck == 2            \* entries of presentation_data.slides

TemplateFile == "Scientific Conference Slides.pptx"
TemplatesDir == "templates"
OutputFile == "enhanced_generated_presentation.pptx"

SeqsUpTo(S, n) == UNION {[1..k -> S] : k \in 0..n}

\* The slide sizes of the template analyses the merger is run on for the
\* generator: 16 by 9 inches, the same in native units, a width between the
\* merger's threshold and the generator's, and a size of a few native units
\* given in inches.
MergedDimensions ==
    {[width |-> N16, height |-> N9],
     [width |-> NativeWidth, height |-> NativeHeight],
     [width |-> Numeral(<<"5", "0", "0", "0", "0">>, <<>>),
      height |-> Numeral(<<"2", "8", "1", "2", "5">>, <<>>)],
     [width |-> Numeral(<<"0">>, <<"0", "0", "0", "0", "1">>),
      height |-> Numeral(<<"0">>, <<"0", "0", "0", "0", "1">>)]}

MergedConfigs ==
    {generate_python_pptx_config(ExtractionSteps(t, i).design_properties).value :
         t \in {[t EXCEPT !.slide_dimensions = d] :
                    t \in {t \in MergeTemplateAnalyses :
                               /\ {"slide_dimensions", "font_scheme", "layouts"}
                                      \subseteq DOMAIN t
                               /\ DOMAIN t.slide_dimensions # {}
                               /\ t.slide_dimensions.width = N16},
                    d \in MergedDimensions},
         i \in {i \in MergeImageAnalyses :
                    {"color_palette", "layout_patterns"} \subseteq DOMAIN i}}

Backgrounds ==
    {<<>>, HexColor("F", "F", "F", "F", "F", "F"), HexColor("f", "f", "f", "f", "f", "f"),
     HexColor("4", "c", "a", "f", "5", "0"), <<"#", "z", "z">>}

\* The configurations written by hand: a text color that is a hex color
\* with each of the backgrounds, and a text color that is none.
WrittenConfigs ==
    {[color_scheme |->
          [text_dark |-> text_dark_background[1]]
              @@ Optional("background", text_dark_background[2]),
      fonts |-> [primary |-> Str("Arial"), title_size |-> 40, heading_size |-> 30,
                 body_size |-> 20]] :
         text_dark_background \in
             ({HexColor("2", "d", "4", "a", "2", "e")}
                  \X ({<<>>} \cup {<<b>> : b \in Backgrounds}))
                 \cup {<< <<"#", "z", "z">>, <<>> >>}}

Layout(name, title, body) == [name |-> name, title |-> title, body |-> body]

TemplateLayouts ==
    {<<Layout("Title Slide", TRUE, TRUE), Layout("Title and Content", TRUE, TRUE)>>,
     <<Layout("Title Slide", TRUE, FALSE), Layout("Title and Content", TRUE, FALSE)>>,
     <<Layout("Blank", FALSE, FALSE)>>,
     <<Layout("Title Only", TRUE, FALSE), Layout("Title and Content", TRUE, TRUE),
       Layout("Title Slide", TRUE, TRUE)>>}

\* The templates/ directory: a template for the title slide, one for the
\* title_and_content slides, one without shape for the blank slides, and
\* none for the other slide types.
JinjaTemplates ==
    [name \in {"title_slide.xml", "title_and_content_slide.xml", "blank_slide.xml"} |->
        IF name = "title_slide.xml"
        THEN <<[type |-> "title", field |-> "title"], [type |-> "body", field |-> "subtitle"]>>
        ELSE IF name = "title_and_content_slide.xml"
        THEN <<[type |-> "title", field |-> "title"], [type |-> "body", field |-> "content"]>>
        ELSE <<>>]

\* The data dictionaries of the calls.
Contexts == {EmptyDict, [presenter |-> <<"Ann">>]}

TitleSlideDatas ==
    {EmptyDict,
     [title |-> <<BAD>>],
     [title |-> <<"Results of ", VAR>>, subtitle |-> <<"2024", NL>>],
     [title |-> <<"Results">>, subtitle |-> <<BAD>>]}

ItemTexts == {<<"a">>, <<"b", NL, "c">>, <<VAR>>, <<"d", NL>>, <<BAD>>}

Contents ==
    {<<>>, <<[list |-> FALSE, items |-> <<<<"a", NL, "b">>>>]>>}
        \cup {<<[list |-> TRUE, items |-> items]>> : items \in SeqsUpTo(ItemTexts, MaxItems)}

ShapeElements ==
    {[type |-> "title", text |-> <<"Results">>], [type |-> "title", text |-> <<>>],
     [type |-> "body", text |-> <<"a", NL, "b">>], [type |-> "body", text |-> <<>>],
     [type |-> "picture", text |-> <<>>]}

LayoutNameArgs == {"Title Slide", "Title and Content", "Nonexistent Layout"}

SlideInfos ==
    {[type |-> "title_and_content", data |-> [title |-> <<"Methods">>, content |-> <<"a">>]],
     [type |-> "title_and_content"],
     [type |-> "title_only", data |-> [title |-> <<"Thanks">>]],
     [type |-> "blank", data |-> EmptyDict],
     [data |-> [title |-> <<"Notes">>]]}

\* EnhancedPresentationGenerator(template_file, design_config_file): the
\* configuration of the file, or the default one when there is no file.
_load_design_config ==
    /\ call = NoCall
    /\ design_config = EmptyDict
    /\ design_config' = IF ConfigFile \in DOMAIN files
                        THEN LoadedConfig(files[ConfigFile])
                        ELSE DefaultDesignConfig
    /\ UNCHANGED <<mapping_vars, extractor_vars, files, prs, log>>

\* A slide-building method called on Presentation(template_path).
Build(op, built) ==
    /\ call' = op
    /\ prs' = [Presentation(files[TemplateFile]) EXCEPT !.slides = built.slides]
    /\ log' = built.log
    /\ result' = [NoResult EXCEPT !.raised = built.raised]
    /\ UNCHANGED <<data, edits, slides_config, custom_configs, extractor_vars, files, design_config>>

CallTitleSlide ==
    /\ call = NoCall
    /\ design_config # EmptyDict
    /\ \E title_slide \in TitleSlideDatas, context \in Contexts :
         \E d \in {context @@ [presentation_data |-> [title_slide |-> title_slide]]} :
           \E built \in {create_enhanced_title_slide(design_config,
                                                     files[TemplateFile].layouts, d)} :
               Build([op |-> "create_enhanced_title_slide", data |-> d], built)

CallContentSlide ==
    /\ call = NoCall
    /\ design_config # EmptyDict
    /\ \E title \in {<<>>, <<<<"Methods">>>>}, content \in Contents, d \in Contexts :
         \E slide_data \in {Optional("title", title) @@ Optional("content", content)} :
           \E built \in {create_enhanced_content_slide(design_config,
                                                       files[TemplateFile].layouts,
                                                       slide_data, d)} :
               Build([op |-> "create_enhanced_content_slide",
                      slide_data |-> slide_data, data |-> d], built)

CallSlideFromXml ==
    /\ call = NoCall
    /\ design_config # EmptyDict
    /\ \E slide_xml \in SeqsUpTo(ShapeElements, MaxShapes), layout_name \in LayoutNameArgs :
         \E built \in {create_slide_from_xml(design_config, files[TemplateFile].layouts,
                                             slide_xml, layout_name)} :
             Build([op |-> "create_slide_from_xml", slide_xml |-> slide_xml,
                    layout_name |-> layout_name], built)

\* The shapes handed to _apply_color_scheme: an autoshape without fill of
\* its own, and a shape of a kind that has no fill attribute.
ColoredShapes ==
    {[has_fill |-> TRUE, fill |-> "inherited", rgb |-> <<>>],
     [has_fill |-> FALSE, fill |-> "inherited", rgb |-> <<>>]}

ColorTypes == {"primary", "background", "text_dark"}

CallApplyColorScheme ==
    /\ call = NoCall
    /\ design_config # EmptyDict
    /\ \E shape \in ColoredShapes, color_type \in ColorTypes :
         \E styled \in {_apply_color_scheme(design_config, shape, color_type)} :
             /\ call' = [op |-> "_apply_color_scheme", shape |-> shape,
                         color_type |-> color_type]
             /\ result' = [NoResult EXCEPT !.value = styled.shape]
             /\ log' = styled.log
    /\ UNCHANGED <<data, edits, slides_config, custom_configs, extractor_vars, files,
                   design_config, prs>>

\* generate_enhanced_presentation(data, output_file): an exception of a
\* slide escapes before prs.save, so that nothing is written.
generate_enhanced_presentation ==
    /\ call = NoCall
    /\ design_config # EmptyDict
    /\ \E title_slide \in {<<>>, <<[title |-> <<"Results">>, subtitle |-> <<"2024">>]>>,
                           <<[title |-> <<"Results">>]>>},
          slides \in SeqsUpTo(SlideInfos, MaxDeck) :
         \E d \in {[presentation_data |->
                        Optional("title_slide", title_slide) @@ [slides |-> slides]]} :
           \E sized \in {SizedPresentation(design_config, Presentation(files[TemplateFile]))},
              built \in {GeneratedSlides(design_config, files[TemplateFile].layouts,
                                         files[TemplatesDir], d)} :
               LET saved == [sized.prs EXCEPT !.slides = built.slides,
                                              !.saved = built.raised = "none"]
               IN  /\ call' = [op |-> "generate_enhanced_presentation", data |-> d]
                   /\ prs' = saved
                   /\ log' = sized.log \o built.log
                   /\ result' = [NoResult EXCEPT !.raised = built.raised]
                   /\ files' = IF built.raised = "none"
                               THEN DictSet(files, OutputFile, saved)
                               ELSE files
    /\ UNCHANGED <<data, edits, slides_config, custom_configs, extractor_vars, design_config>>

InitAssemble ==
    /\ MappingIdle
    /\ ExtractorNew
    /\ \E config \in {<<>>} \cup {<<c>> : c \in MergedConfigs \cup WrittenConfigs},
          layouts \in TemplateLayouts :
           files = [name \in {TemplateFile, TemplatesDir} |->
                       IF name = TemplatesDir THEN JinjaTemplates
                       ELSE [layouts |-> layouts, slide_width |-> 10 * EMU_PER_INCH,
                             slide_height |-> 15 * (EMU_PER_INCH \div 2)]]
                       @@ Optional(ConfigFile, config)
    /\ design_config = EmptyDict
    /\ prs = [layouts |-> <<>>, slides |-> <<>>, saved |-> FALSE]
    /\ log = <<>>

NextAssemble ==
    \/ _load_design_config
    \/ CallTitleSlide
    \/ CallContentSlide
    \/ CallSlideFromXml
    \/ CallApplyColorScheme
    \/ generate_enhanced_presentation

SpecAssemble == InitAssemble /\ [][NextAssemble]_vars

(***************************************************************************)
(* Claims about the assembly stage.                                        *)
(***************************************************************************)
Called(op) == call.op = op

\* The layouts of the template the generator works on.
Layouts == files[TemplateFile].layouts

HasLayoutNamed(layout_name) == \E i \in 1..Len(Layouts) : Layouts[i].name = layout_name

\* C13: create_slide_from_xml called with a layout name that no layout of
\* the template has raises nothing, reports the missing layout, and adds one
\* slide, on the layout of index 0 and with the placeholders of that layout.
C13_LayoutFallback ==
    Called("create_slide_from_xml") /\ ~HasLayoutNamed(call.layout_name)
        => /\ result.raised = "none"
           /\ Len(prs.slides) = 1
           /\ prs.slides[1].layout = 0
           /\ prs.slides[1].title.present = Layouts[1].title
           /\ prs.slides[1].body.present = Layouts[1].body
           /\ log # <<>> /\ log[1] = LayoutNotFound

\* A slide with a title was built from XML for "Nonexistent Layout" on a
\* template of three layouts.
C13_Witness ==
    /\ Called("create_slide_from_xml")
    /\ call.layout_name = "Nonexistent Layout"
    /\ Len(Layouts) = 3
    /\ Len(prs.slides) = 1
    /\ prs.slides[1].layout = 0
    /\ Len(prs.slides[1].title.paragraphs) = 1
    /\ prs.slides[1].title.paragraphs[1].text = <<"Results">>

\* The entries of presentation_data.slides that generate_enhanced_presentation
\* can build: the type is one of the table, its template file exists and the
\* entry has its data.
Buildable(slides) ==
    {i \in 1..Len(slides) :
        /\ {"type", "data"} \subseteq DOMAIN slides[i]
        /\ slides[i].type \in DOMAIN SlideTypes
        /\ SlideTypes[slides[i].type].template_name \in DOMAIN files[TemplatesDir]}

\* C14: whatever slide fails in its text substitution (template lookup or
\* render raising, entry without data), generate_enhanced_presentation
\* raises nothing, saves the output document, and the document has the
\* title slide and one slide for every entry that can be built.
C14_AsStated ==
    Called("generate_enhanced_presentation")
        => LET presentation_data == call.data.presentation_data
               titles == IF "title_slide" \in DOMAIN presentation_data THEN 1 ELSE 0
           IN  /\ result.raised = "none"
               /\ OutputFile \in DOMAIN files
               /\ Len(files[OutputFile].slides)
                      = titles + Cardinality(Buildable(presentation_data.slides))

\* create_enhanced_content_slide has returned a slide whose layout has the
\* body placeholder, for a list content of at least one item.
ListBound ==
    /\ Called("create_enhanced_content_slide")
    /\ result.raised = "none"
    /\ Len(prs.slides) = 1
    /\ prs.slides[1].body.present
    /\ "content" \in DOMAIN call.slide_data
    /\ call.slide_data.content.list
    /\ call.slide_data.content.items # <<>>

\* C15: for a list content of n >= 1 items the body placeholder ends with
\* exactly n paragraphs, all at level 0, the i-th holding the processed i-th
\* item (a line feed of the item read back as the line break of the
\* paragraph).
C15_AsStated ==
    ListBound
        => LET items == call.slide_data.content.items
               paragraphs == prs.slides[1].body.paragraphs
           IN  /\ Len(paragraphs) = Len(items)
               /\ \A i \in 1..Len(items) :
                      /\ paragraphs[i].level = 0
                      /\ paragraphs[i].text =
                             ParagraphSetText(
                                 process_text_with_jinja(items[i], call.data).value).text

\* The index of the layout the last call builds its slide on.
UsedLayout ==
    IF Called("create_enhanced_title_slide") THEN 0
    ELSE IF Called("create_enhanced_content_slide") THEN 1
    ELSE SelectLayout(Layouts, call.layout_name).index

\* The text the last call binds to the title placeholder, as it is before
\* the text substitution.
TitleText ==
    IF Called("create_enhanced_title_slide")
    THEN DictGet(call.data.presentation_data.title_slide, "title", <<"Presentation Title">>)
    ELSE DictGet(call.slide_data, "title", <<"Slide Title">>)

\* One of the three slide-building methods was called, on a layout that
\* exists and lacks the placeholder of index 1, with a title text that the
\* text substitution takes.
BuiltWithoutBodyPlaceholder ==
    /\ call.op \in {"create_enhanced_title_slide", "create_enhanced_content_slide",
                    "create_slide_from_xml"}
    /\ UsedLayout + 1 <= Len(Layouts)
    /\ ~Layouts[UsedLayout + 1].body
    /\ \/ Called("create_slide_from_xml")
       \/ ~Layouts[UsedLayout + 1].title
       \/ process_text_with_jinja(TitleText, call.data).raised = "none"

PlaceholderDiagnostics ==
    {SubtitlePlaceholderMissing, ContentPlaceholderMissing, BodyPlaceholderMissing}

Occurrences(diagnostics, d) ==
    Cardinality({i \in 1..Len(diagnostics) : diagnostics[i] = d})

\* The shape elements of a slide_xml the loop of create_slide_from_xml gets
\* to on a slide without body placeholder: all of them, or those up to the
\* first title element without text when the slide has a title placeholder.
Reached(slide_xml, has_title) ==
    LET stops == {i \in 1..Len(slide_xml) :
                      has_title /\ slide_xml[i].type = "title" /\ slide_xml[i].text = <<>>}
    IN  IF stops = {} THEN slide_xml
        ELSE SubSeq(slide_xml, 1, CHOOSE i \in stops : \A j \in stops : i <= j)

\* C16 as stated: on a layout without the placeholder of index 1 each of the
\* three slide-building methods raises nothing, adds its slide without that
\* piece, and records a diagnostic about the missing placeholder.
C16_AsStated ==
    BuiltWithoutBodyPlaceholder
        => /\ result.raised = "none"
           /\ Len(prs.slides) = 1
           /\ ~prs.slides[1].body.present
           /\ \E i \in 1..Len(log) : log[i] \in PlaceholderDiagnostics

\* C16: on a layout without the placeholder of index 1 each of the three
\* slide-building methods raises nothing and adds its slide without that
\* piece and with its title bound; create_enhanced_title_slide and
\* create_enhanced_content_slide record their diagnostic once in every
\* call, create_slide_from_xml records its diagnostic once for each body
\* shape element it gets to, so not at all for an XML without body shape.
C16_MissingPlaceholderNonFatal ==
    BuiltWithoutBodyPlaceholder
        => /\ result.raised = "none"
           /\ Len(prs.slides) = 1
           /\ ~prs.slides[1].body.present
           /\ prs.slides[1].layout = UsedLayout
           /\ Called("create_enhanced_title_slide")
                  => /\ Occurrences(log, SubtitlePlaceholderMissing) = 1
                     /\ Layouts[1].title
                            => [i \in 1..Len(prs.slides[1].title.paragraphs) |->
                                   prs.slides[1].title.paragraphs[i].text]
                               = SplitLines(process_text_with_jinja(TitleText, call.data).value)
           /\ Called("create_enhanced_content_slide")
                  => /\ Occurrences(log, ContentPlaceholderMissing) = 1
                     /\ Layouts[2].title
                            => [i \in 1..Len(prs.slides[1].title.paragraphs) |->
                                   prs.slides[1].title.paragraphs[i].text]
                               = SplitLines(process_text_with_jinja(TitleText, call.data).value)
           /\ Called("create_slide_from_xml")
                  => LET reached == Reached(call.slide_xml, prs.slides[1].title.present)
                         titles == {i \in 1..Len(reached) : reached[i].type = "title"}
                     IN  /\ Occurrences(log, BodyPlaceholderMissing)
                                = Cardinality({i \in 1..Len(reached) :
                                                   reached[i].type = "body"})
                         /\ ( /\ prs.slides[1].title.present
                              /\ titles # {}
                              /\ \A i \in titles : reached[i].text # <<>> )
                                => [i \in 1..Len(prs.slides[1].title.paragraphs) |->
                                       prs.slides[1].title.paragraphs[i].text]
                                   = SplitLines(reached[CHOOSE i \in titles :
                                                            \A j \in titles : j <= i].text)

\* create_slide_from_xml has built, on a layout without body placeholder, a
\* slide from an XML with a title and a body: the title is bound and the
\* missing body placeholder is reported.
C16_Witness ==
    /\ Called("create_slide_from_xml")
    /\ BuiltWithoutBodyPlaceholder
    /\ Len(call.slide_xml) = 2
    /\ call.slide_xml[1].type = "body" /\ call.slide_xml[1].text # <<>>
    /\ call.slide_xml[2].type = "title" /\ call.slide_xml[2].text # <<>>
    /\ Len(prs.slides) = 1
    /\ prs.slides[1].title.present
    /\ prs.slides[1].title.paragraphs[1].text = <<"Results">>
    /\ log = <<BodyPlaceholderMissing>>

\* The generator was loaded with the reduced configuration of the merger,
\* the only configuration of the runs with the key 'colors'.
ReducedConfigLoaded == design_config # EmptyDict /\ "colors" \in DOMAIN design_config

\* C17: loaded with the reduced configuration of the merger, the generator
\* styles every run of a title with the font family of the configuration,
\* its title size (44) and its text_dark color (#2d4a2e), and every run of a
\* body with the family and the body size.
C17_AsStated ==
    ReducedConfigLoaded /\ call.op # "none" /\ result.raised = "none"
        => LET family == design_config.fonts.primary
               sizes == design_config.fonts.sizes
               text_dark == _hex_to_rgb(design_config.colors.text_dark).value
               Runs(shape) == {i \in 1..Len(shape.paragraphs) :
                                   shape.paragraphs[i].text # <<>>}
           IN  \A n \in 1..Len(prs.slides) :
                   /\ ~Called("create_enhanced_content_slide")
                          => \A i \in Runs(prs.slides[n].title) :
                                 prs.slides[n].title.paragraphs[i].font
                                     = [name |-> family, size |-> sizes.title,
                                        rgb |-> text_dark]
                   /\ ~Called("create_enhanced_title_slide")
                          => \A i \in Runs(prs.slides[n].body) :
                                 /\ prs.slides[n].body.paragraphs[i].font.name = family
                                 /\ prs.slides[n].body.paragraphs[i].font.size = sizes.body

\* One of the two methods that build their slide with _create_styled_slide
\* was called and the slide was added.
StyledSlideCreated ==
    /\ call.op \in {"create_enhanced_title_slide", "create_enhanced_content_slide"}
    /\ Len(prs.slides) = 1

\* #FFFFFF in any letter case.
PureWhite(color) == _hex_to_rgb(color) = [raised |-> "none", value |-> <<255, 255, 255>>]

\* C18: the slide of _create_styled_slide has a background fill of its own
\* if and only if the design configuration sets a background color and that
\* color is not pure white, in whatever letter case it is written.
C18_AsStated ==
    StyledSlideCreated
        => LET color_scheme == DictGet(design_config, "color_scheme", EmptyDict)
               background == DictGet(color_scheme, "background", <<>>)
           IN  prs.slides[1].background.fill = "solid"
                   <=> background # <<>> /\ ~PureWhite(background)

SlideBuilt ==
    call.op \in {"create_enhanced_title_slide", "create_enhanced_content_slide",
                 "create_slide_from_xml", "generate_enhanced_presentation"}

\* The color a styling call converts is no hex color.
ColorFails(color_type, default) ==
    _hex_to_rgb(DictGet(DictGet(design_config, "color_scheme", EmptyDict),
                        color_type, default)).raised # "none"

Unstyled(shape) == \A i \in 1..Len(shape.paragraphs) : shape.paragraphs[i].font = NoFont

\* C21 as stated: a styling failure is caught where it happens and never
\* escapes the call; the shape that failed is left unstyled, no run of it
\* keeping a font name or size (and a shape given to _apply_color_scheme
\* keeping the fill it had); and the shapes and slides after it are still
\* processed.
C21_AsStated ==
    /\ (SlideBuilt /\ ColorFails("text_dark", HexColor("0", "0", "0", "0", "0", "0")))
           => /\ result.raised # "ValueError"
              /\ \A n \in 1..Len(prs.slides) :
                     Unstyled(prs.slides[n].title) /\ Unstyled(prs.slides[n].body)
    /\ (Called("_apply_color_scheme")
            /\ ColorFails(call.color_type, HexColor("4", "4", "7", "2", "C", "4")))
           => /\ result.raised = "none"
              /\ result.value = call.shape
              /\ log = <<ColorSchemeError>>

\* The entries of presentation_data.slides whose type the loop recognizes.
Recognized(slides) ==
    {i \in 1..Len(slides) : DictGet(slides[i], "type", "content") \in DOMAIN SlideTypes}

\* The slide is the one of the entry: it is on the layout of the entry's
\* type (the first layout when the template has no layout of that name) and
\* its title placeholder, when the template file of the type has a title
\* element, holds the entry's title.
SlideOfEntry(slide, slide_info) ==
    LET slide_type == SlideTypes[slide_info.type]
    IN  /\ slide.layout = SelectLayout(Layouts, slide_type.layout_name).index
        /\ "data" \in DOMAIN slide_info
        /\ slide_type.template_name \in DOMAIN files[TemplatesDir]
        /\ (/\ slide.title.present
            /\ "title" \in DOMAIN slide_info.data
            /\ \E i \in 1..Len(files[TemplatesDir][slide_type.template_name]) :
                   files[TemplatesDir][slide_type.template_name][i].type = "title")
               => /\ Len(slide.title.paragraphs) = 1
                  /\ slide.title.paragraphs[1].text = slide_info.data.title

\* C26 as stated: generate_enhanced_presentation makes the title slide first
\* if and only if presentation_data has title_slide, then one slide for each
\* entry of presentation_data.slides with a recognized type, the k-th slide
\* being the one of the k-th such entry; an entry whose type is unrecognized
\* or missing makes no slide.
C26_AsStated ==
    Called("generate_enhanced_presentation")
        => LET presentation_data == call.data.presentation_data
               slides == presentation_data.slides
               titles == IF "title_slide" \in DOMAIN presentation_data THEN 1 ELSE 0
               Rank(i) == Cardinality({j \in Recognized(slides) : j <= i})
           IN  /\ Len(prs.slides) = titles + Cardinality(Recognized(slides))
               /\ titles = 1
                      => prs.slides[1].layout = SelectLayout(Layouts, "Title Slide").index
               /\ \A i \in Recognized(slides) :
                      SlideOfEntry(prs.slides[titles + Rank(i)], slides[i])

\* The reduced configuration of the merger was loaded and
\* generate_enhanced_presentation was called with it.
GeneratedFromMerged ==
    /\ Called("generate_enhanced_presentation")
    /\ ConfigFile \in DOMAIN files
    /\ files[ConfigFile] \in MergedConfigs

\* C27 as stated: for every positive slide_dimensions input the slide width
\* and height the generator sets from the reduced configuration are the
\* width_emu and height_emu of the merger, which the reduced configuration
\* holds as width and height.
C27_AsStated ==
    GeneratedFromMerged
        => /\ prs.slide_width = files[ConfigFile].slide_dimensions.width
           /\ prs.slide_height = files[ConfigFile].slide_dimensions.height

====
